---- MODULE Spec2Model ----
(***************************************************************************)
(* Verification model of the stack-depth analyzer for ARMv6-M executables. *)
(*                                                                         *)
(* The module holds one state machine per analysis stage:                  *)
(*   SpecSolver      program/parse.py, the cumulative-stack solver         *)
(*   SpecEntrypoints program/parse.py, the entrypoint aggregator           *)
(*   SpecFunction    functions/s04..s06, the per-function pipeline         *)
(*   SpecPipeline    parse.py, the stages s04..s06 and the solver in turn  *)
(*   SpecBlx         s04, the BLX Rm resolver                              *)
(*   SpecOrder       the pipeline with pop and scan orders left open       *)
(*   SpecTable       s04, the ADD PC, Rm offset-table resolver             *)
(*   SpecDecoder     instructions_decoder/parse.py over a code region      *)
(*   SpecSp          the decoder and the s04 SP-effect resolver per opcode *)
(*   SpecRegions     s01, the code/data regions of a function              *)
(* SpecSolverFair and SpecFunctionFair add the fairness of their steps.    *)
(* The variables of the stages a specification does not run stay idle.     *)
(***************************************************************************)
EXTENDS Integers, Sequences, FiniteSets, TLC

VARIABLES
    \* cumulative-stack solver (program/parse.py)
    parent_functions,                           \* parent_functions_.inner, ordered by address
    stack_grow_cumulative_by_function_address,  \* the dict the solver fills
    functions_unresolved,                       \* what is left of the list the current pass scans
    changed,                                    \* the pass's progress flag
    passes,                                     \* passes started so far
    function_addresses_unresolved,              \* the set computed once the loop is left
    solver_pc,                                  \* position in the solver
    \* entrypoint aggregator (program/parse.py)
    parent_entrypoints,                         \* the raw entrypoints handed to parse_entrypoints
    entrypoints_priority_known,                 \* its dict {priority group: [Entrypoint]}, in insertion order
    entrypoints_priority_unknown,               \* its list of entrypoints of unknown priority
    entrypoints,                                \* the Entrypoints it returns
    entrypoints_pc,                             \* position in parse_entrypoints
    \* per-function pipeline (functions/s05_instructions_graph, functions/s06_functions_effect)
    parent_function_instructions,               \* the function's instructions with their effects (s04)
    function_instructions,                      \* its instruction graph (s05 FunctionInstructions)
    stack_grow_entry,                           \* s06: sum of the entry walk
    function_offsets_entry,                     \* s06: offsets the entry walk recorded
    function_offsets_return_stack_grow_function_offsets, \* s06: {return offset: (sum, offsets)}
    function_analyzed,                          \* s06: the analyzed Function
    function_error,                             \* the error that rejected the function
    function_pc,                                \* position in the pipeline
    \* analysis pipeline over the functions of a program (functions/parse.py, program/parse.py)
    s03_instructions_decode_functions,          \* the decoded functions, each instruction with what the effect resolvers give
    s04_instructions_effect_functions,          \* s04 parse: the functions list it builds
    exceptions,                                 \* s04 parse: the ParseFunctionInstructionsException list, by function address
    s05_instructions_graph_functions,           \* s05 parse: the functions built so far
    s06_functions_effect_functions,             \* s06 parse: the functions built so far
    functions_,                                 \* program parse_functions: the Functions with their cumulative stack growth
    pipeline_index,                             \* functions the running stage has taken from its input
    pipeline_error,                             \* the exception that ended the analysis
    pipeline_error_functions,                   \* addresses of the functions the exception reports
    pipeline_pc,                                \* position in the pipeline
    \* BLX Rm resolver (functions/s04_instructions_effect/_program_counter_effect.py)
    cursor_function_region_instructions,        \* the cursor at the BLX: its function's address, instructions and data, its index
    config_call_overrides,                      \* targets_by_source of the configuration
    effects_call,                               \* resolve_blx_register_t1: the set of effects the resolvers gave
    effect_call,                                \* the EffectCall it returns
    blx_error,                                  \* the exception it raises
    blx_pc,                                     \* position in resolve_blx_register_t1
    \* worklist of s05 parse_function_instructions, program stack size
    function_offsets_queue,                     \* set of offsets the worklist still has to take
    function_offsets_closed,                    \* set of offsets the worklist has taken
    worklist_function_instructions,             \* the list function_instructions of the worklist, in append order
    stack_size,                                 \* Program.stack_size, 0 before it is computed
    \* ADD PC, Rm resolver (functions/s04_instructions_effect/_program_counter_effect.py)
    table_cursor_function_region_instructions,  \* the cursor at the ADD PC, Rm: its function's address, instructions and data bytes, its index
    effects_branch,                             \* resolve_add_register_t2_pc: the set of effects the resolvers gave
    effect_branch,                              \* the EffectBranch it returns
    table_error,                                \* the exception it raises
    table_pc,                                   \* position in resolve_add_register_t2_pc
    \* instruction decoder (instructions_decoder/parse.py, functions/s03_instructions/parse.py)
    opcodes_bytes,                              \* the bytes of a code region
    opcodes_offset,                             \* bytes the half-word iterator has given out
    decoded_instructions,                       \* the list instructions of parse_function_region, as the sizes of the instructions
    decoder_error,                              \* the exception that ended the decoding
    decoder_pc,                                 \* position in parse_function_region
    \* SP-effect resolver over decoded half-words (instructions_decoder/parse.py, functions/s04_instructions_effect/_stack_pointer_effect.py)
    sp_opcode_halfword,                         \* the two bytes of the half-word handed to the decoder
    sp_instruction,                             \* the Instruction the decoder returned
    stack_pointer_effect,                       \* _stack_pointer_effect.resolve: the Effect's add, None for no effect
    sp_error,                                   \* the exception the decoder or the resolver raised
    sp_pc,                                      \* position: decoding, resolving, returned or raised
    \* code/data regions of a function (functions/s01_symbols_table/parse.py)
    s01_function,                               \* the function whose regions are resolved: its address and size
    code_data_marker_by_address,                \* {address: code} of the $t (True) and $d (False) symbols of the table
    function_regions_,                          \* the list of FunctionRegion built
    s01_error,                                  \* the ValueError raised
    s01_pc                                      \* position in resolve_function_regions

solver_vars == <<parent_functions, stack_grow_cumulative_by_function_address, functions_unresolved,
                 changed, passes, function_addresses_unresolved, solver_pc>>

entrypoints_vars == <<parent_entrypoints, entrypoints_priority_known, entrypoints_priority_unknown,
                      entrypoints, entrypoints_pc>>

function_vars == <<parent_function_instructions, function_instructions, stack_grow_entry,
                   function_offsets_entry, function_offsets_return_stack_grow_function_offsets,
                   function_analyzed, function_error, function_pc>>

pipeline_vars == <<s03_instructions_decode_functions, s04_instructions_effect_functions, exceptions,
                   s05_instructions_graph_functions, s06_functions_effect_functions, functions_,
                   pipeline_index, pipeline_error, pipeline_error_functions, pipeline_pc>>

blx_vars == <<cursor_function_region_instructions, config_call_overrides, effects_call, effect_call, blx_error, blx_pc>>

order_vars == <<function_offsets_queue, function_offsets_closed, worklist_function_instructions, stack_size>>

table_vars == <<table_cursor_function_region_instructions, effects_branch, effect_branch, table_error, table_pc>>

decoder_vars == <<opcodes_bytes, opcodes_offset, decoded_instructions, decoder_error, decoder_pc>>

sp_vars == <<sp_opcode_halfword, sp_instruction, stack_pointer_effect, sp_error, sp_pc>>

regions_vars == <<s01_function, code_data_marker_by_address, function_regions_, s01_error, s01_pc>>

vars == <<parent_functions, stack_grow_cumulative_by_function_address, functions_unresolved,
          changed, passes, function_addresses_unresolved, solver_pc,
          parent_entrypoints, entrypoints_priority_known, entrypoints_priority_unknown,
          entrypoints, entrypoints_pc,
          parent_function_instructions, function_instructions, stack_grow_entry,
          function_offsets_entry, function_offsets_return_stack_grow_function_offsets,
          function_analyzed, function_error, function_pc,
          s03_instructions_decode_functions, s04_instructions_effect_functions, exceptions,
          s05_instructions_graph_functions, s06_functions_effect_functions, functions_,
          pipeline_index, pipeline_error, pipeline_error_functions, pipeline_pc,
          cursor_function_region_instructions, config_call_overrides, effects_call, effect_call, blx_error, blx_pc,
          function_offsets_queue, function_offsets_closed, worklist_function_instructions, stack_size,
          table_cursor_function_region_instructions, effects_branch, effect_branch, table_error, table_pc,
          opcodes_bytes, opcodes_offset, decoded_instructions, decoder_error, decoder_pc,
          sp_opcode_halfword, sp_instruction, stack_pointer_effect, sp_error, sp_pc,
          s01_function, code_data_marker_by_address, function_regions_, s01_error, s01_pc>>

\* what a stage leaves alone: the variables of the other stages
solver_others == <<entrypoints_vars, function_vars, pipeline_vars, blx_vars, order_vars, table_vars, decoder_vars, sp_vars, regions_vars>>
entrypoints_others == <<solver_vars, function_vars, pipeline_vars, blx_vars, order_vars, table_vars, decoder_vars, sp_vars, regions_vars>>
function_others == <<solver_vars, entrypoints_vars, pipeline_vars, blx_vars, order_vars, table_vars, decoder_vars, sp_vars, regions_vars>>
pipeline_others == <<solver_vars, entrypoints_vars, function_vars, blx_vars, order_vars, table_vars, decoder_vars, sp_vars, regions_vars>>
blx_others == <<solver_vars, entrypoints_vars, function_vars, pipeline_vars, order_vars, table_vars, decoder_vars, sp_vars, regions_vars>>

\* what the pipeline leaves alone when it starts the solver
pipeline_solver_others == <<entrypoints_vars, function_vars, blx_vars, order_vars, table_vars, decoder_vars, sp_vars, regions_vars>>
order_others == <<solver_vars, entrypoints_vars, function_vars, pipeline_vars, blx_vars, table_vars, decoder_vars, sp_vars, regions_vars>>
table_others == <<solver_vars, entrypoints_vars, function_vars, pipeline_vars, blx_vars, order_vars, decoder_vars, sp_vars, regions_vars>>
decoder_others == <<solver_vars, entrypoints_vars, function_vars, pipeline_vars, blx_vars, order_vars, table_vars, sp_vars, regions_vars>>
sp_others == <<solver_vars, entrypoints_vars, function_vars, pipeline_vars, blx_vars, order_vars, table_vars, decoder_vars, regions_vars>>
regions_others == <<solver_vars, entrypoints_vars, function_vars, pipeline_vars, blx_vars, order_vars, table_vars, decoder_vars, sp_vars>>

\* the stages a specification does not run
SolverIdle ==
    /\ parent_functions = <<>>
    /\ stack_grow_cumulative_by_function_address = <<>>
    /\ functions_unresolved = <<>>
    /\ changed = FALSE
    /\ passes = 0
    /\ function_addresses_unresolved = {}
    /\ solver_pc = "idle"

EntrypointsIdle ==
    /\ parent_entrypoints = <<>>
    /\ entrypoints_priority_known = <<>>
    /\ entrypoints_priority_unknown = <<>>
    /\ entrypoints = <<>>
    /\ entrypoints_pc = "idle"

FunctionIdle ==
    /\ parent_function_instructions = <<>>
    /\ function_instructions = <<>>
    /\ stack_grow_entry = 0
    /\ function_offsets_entry = {}
    /\ function_offsets_return_stack_grow_function_offsets = <<>>
    /\ function_analyzed = <<>>
    /\ function_error = ""
    /\ function_pc = "idle"

PipelineIdle ==
    /\ s03_instructions_decode_functions = <<>>
    /\ s04_instructions_effect_functions = <<>>
    /\ exceptions = <<>>
    /\ s05_instructions_graph_functions = <<>>
    /\ s06_functions_effect_functions = <<>>
    /\ functions_ = <<>>
    /\ pipeline_index = 0
    /\ pipeline_error = ""
    /\ pipeline_error_functions = <<>>
    /\ pipeline_pc = "idle"

BlxIdle ==
    /\ cursor_function_region_instructions = <<>>
    /\ config_call_overrides = <<>>
    /\ effects_call = {}
    /\ effect_call = {}
    /\ blx_error = ""
    /\ blx_pc = "idle"

OrderIdle ==
    /\ function_offsets_queue = {}
    /\ function_offsets_closed = {}
    /\ worklist_function_instructions = <<>>
    /\ stack_size = 0

TableIdle ==
    /\ table_cursor_function_region_instructions = <<>>
    /\ effects_branch = {}
    /\ effect_branch = {}
    /\ table_error = ""
    /\ table_pc = "idle"

DecoderIdle ==
    /\ opcodes_bytes = <<>>
    /\ opcodes_offset = 0
    /\ decoded_instructions = <<>>
    /\ decoder_error = ""
    /\ decoder_pc = "idle"

SpIdle ==
    /\ sp_opcode_halfword = <<>>
    /\ sp_instruction = <<>>
    /\ stack_pointer_effect = 0
    /\ sp_error = ""
    /\ sp_pc = "idle"

RegionsIdle ==
    /\ s01_function = <<>>
    /\ code_data_marker_by_address = <<>>
    /\ function_regions_ = <<>>
    /\ s01_error = ""
    /\ s01_pc = "idle"

\* Python's None, where the code uses it for "no offset" / "no value"
None == -1

\* max(iterable, default=0) over a set of integers
MaxDefault0(S) == IF S = {} THEN 0 ELSE CHOOSE m \in S : \A x \in S : x <= m

(***************************************************************************)
(* Cumulative-stack solver                                                 *)
(***************************************************************************)

\* largest number of functions of an input program
MaxFunctions == 3

\* the i-th function of an input program lives at a half-word aligned address
InputFunctionAddress(i) == 2 * (i - 1)

\* own stack growth of the i-th input function, a word multiple:
\* 4, 8, 0, 4, ... in variant 1 and 8, 4, 0, 8, ... in variant 2
InputStackGrowVariants == {1, 2}
InputFunctionStackGrow(i, variant) == 4 * ((variant * i) % 3)

\* the analyzed functions of a program of n functions with the call sets `calls`
\* (functions/model.py Functions: sorted by address, calls point to functions of the program)
InputFunctions(n, variant, calls) ==
    [i \in 1..n |-> [address |-> InputFunctionAddress(i),
                     stack_grow |-> InputFunctionStackGrow(i, variant),
                     call_addresses |-> calls[i]]]

\* parent_functions_.by_address.keys()
FunctionAddresses == {parent_functions[i].address : i \in DOMAIN parent_functions}

\* parent_functions_.by_address[address]
FunctionByAddress(address) ==
    parent_functions[CHOOSE i \in DOMAIN parent_functions : parent_functions[i].address = address]

\* a slip of CalleesResolved: the strict subset test "<" in place of "<="
CalleesResolvedStrict(function, resolved) ==
    /\ function.call_addresses \subseteq DOMAIN resolved
    /\ function.call_addresses /= DOMAIN resolved

\* "if not function.call_addresses <= stack_grow_cumulative_by_function_address.keys(): continue"
CalleesResolved(function, resolved) == function.call_addresses \subseteq DOMAIN resolved

\* a slip of StackGrowCumulative: the larger of own and callee growth in place of their sum
StackGrowCumulativeOwnOrCallee(function, resolved) ==
    MaxDefault0({function.stack_grow}
                \cup {resolved[call_address] : call_address \in function.call_addresses})

\* "function.stack_grow + max((resolved[call_address] for call_address in function.call_addresses), default=0)"
StackGrowCumulative(function, resolved) ==
    function.stack_grow + MaxDefault0({resolved[call_address] : call_address \in function.call_addresses})

\* a slip of FunctionAddressesUnresolved: the operands of the set difference swapped
FunctionAddressesUnresolvedSwapped(resolved) == DOMAIN resolved \ FunctionAddresses

\* "parent_functions_.by_address.keys() - stack_grow_cumulative_by_function_address.keys()"
FunctionAddressesUnresolved(resolved) == FunctionAddresses \ DOMAIN resolved

\* a slip of FunctionsUnresolved: the filter is forgotten, a pass scans every function
FunctionsUnresolvedEvery(resolved) == parent_functions

\* the functions a pass scans: those not yet resolved, in the order of parent_functions_.inner
FunctionsUnresolved(resolved) ==
    SelectSeq(parent_functions, LAMBDA function : function.address \notin DOMAIN resolved)

SolverInit ==
    /\ RegionsIdle
    /\ SpIdle
    /\ DecoderIdle
    /\ TableIdle
    /\ OrderIdle
    /\ BlxIdle
    /\ PipelineIdle
    /\ EntrypointsIdle
    /\ FunctionIdle
    /\ \E n \in 1..MaxFunctions, variant \in InputStackGrowVariants :
        \E calls \in [1..n -> SUBSET {InputFunctionAddress(i) : i \in 1..n}] :
            parent_functions = InputFunctions(n, variant, calls)
    /\ stack_grow_cumulative_by_function_address = <<>>
    /\ functions_unresolved = <<>>
    /\ changed = FALSE
    /\ passes = 0
    /\ function_addresses_unresolved = {}
    /\ solver_pc = "while"

\* "while True: changed = False; functions_unresolved = [...]"
SolverPassBegin ==
    /\ solver_pc = "while"
    /\ changed' = FALSE
    /\ functions_unresolved' = FunctionsUnresolved(stack_grow_cumulative_by_function_address)
    /\ passes' = passes + 1
    /\ solver_pc' = "for"
    /\ UNCHANGED <<parent_functions, stack_grow_cumulative_by_function_address,
                   function_addresses_unresolved>>
    /\ UNCHANGED solver_others

\* one iteration of "for function in functions_unresolved"
SolverTryFunction ==
    /\ solver_pc = "for"
    /\ functions_unresolved /= <<>>
    /\ LET function == Head(functions_unresolved)
       IN  IF ~CalleesResolved(function, stack_grow_cumulative_by_function_address)
           THEN UNCHANGED <<stack_grow_cumulative_by_function_address, changed>>
           ELSE /\ stack_grow_cumulative_by_function_address' =
                       (function.address :>
                            StackGrowCumulative(function, stack_grow_cumulative_by_function_address))
                       @@ stack_grow_cumulative_by_function_address
                /\ changed' = TRUE
    /\ functions_unresolved' = Tail(functions_unresolved)
    /\ UNCHANGED <<parent_functions, passes, function_addresses_unresolved, solver_pc>>
    /\ UNCHANGED solver_others

\* the list is exhausted: "if not changed: break", else the next pass
SolverPassEnd ==
    /\ solver_pc = "for"
    /\ functions_unresolved = <<>>
    /\ solver_pc' = IF changed THEN "while" ELSE "check"
    /\ UNCHANGED <<parent_functions, stack_grow_cumulative_by_function_address, functions_unresolved,
                   changed, passes, function_addresses_unresolved>>
    /\ UNCHANGED solver_others

\* after the loop: raise the cycle ValueError when a function is unresolved, else return the dict
SolverFinish ==
    /\ solver_pc = "check"
    /\ function_addresses_unresolved' =
           FunctionAddressesUnresolved(stack_grow_cumulative_by_function_address)
    /\ solver_pc' = IF function_addresses_unresolved' /= {} THEN "raised" ELSE "returned"
    /\ UNCHANGED <<parent_functions, stack_grow_cumulative_by_function_address, functions_unresolved,
                   changed, passes>>
    /\ UNCHANGED solver_others

SolverNext ==
    \/ SolverPassBegin
    \/ SolverTryFunction
    \/ SolverPassEnd
    \/ SolverFinish

SpecSolver == SolverInit /\ [][SolverNext]_vars

\* the solver is sequential code that keeps running: a step that can be taken is taken
SpecSolverFair == SolverInit /\ [][SolverNext]_vars /\ WF_vars(SolverNext)

(***************************************************************************)
(* Call-graph notions the solver's properties are stated with              *)
(***************************************************************************)

\* the call paths of at most `length` functions that start at `address`
RECURSIVE CallPathsFrom(_, _)
CallPathsFrom(address, length) ==
    IF length <= 1
    THEN {<<address>>}
    ELSE LET shorter == CallPathsFrom(address, length - 1)
             longest == {path \in shorter : Len(path) = length - 1}
         IN  shorter \cup
             UNION {{Append(path, callee) :
                        callee \in FunctionByAddress(path[Len(path)]).call_addresses} :
                    path \in longest}

\* `address` lies on a directed call cycle (a self-call is a cycle of length one)
OnCallCycle(address) ==
    \E path \in CallPathsFrom(address, Len(parent_functions) + 1) :
        Len(path) >= 2 /\ path[Len(path)] = address

\* the call graph has a directed cycle
HasCallCycle == \E address \in FunctionAddresses : OnCallCycle(address)

\* `address` is on a call cycle or calls, directly or through other functions, one that is
ReachesCallCycle(address) ==
    \E path \in CallPathsFrom(address, Len(parent_functions)) : OnCallCycle(path[Len(path)])

RECURSIVE PathStackGrow(_)
PathStackGrow(path) ==
    IF path = <<>> THEN 0 ELSE FunctionByAddress(Head(path)).stack_grow + PathStackGrow(Tail(path))

\* the reference definition: the heaviest call path that starts at `address` (acyclic graphs)
LongestPathStackGrow(address) ==
    LET sums == {PathStackGrow(path) : path \in CallPathsFrom(address, Len(parent_functions))}
    IN  CHOOSE m \in sums : \A x \in sums : x <= m

SolverFinished == solver_pc \in {"returned", "raised"}

\* C1: on an acyclic call graph the solver returns, and every function's cumulative stack
\* growth is its own stack growth plus the largest cumulative growth among its callees
\* (plus 0 without callees), which is the weight of the heaviest call path from it.
C1_CumulativeIsOwnPlusMaxCallee ==
    (SolverFinished /\ ~HasCallCycle) =>
        /\ solver_pc = "returned"
        /\ \A i \in DOMAIN parent_functions :
            LET function == parent_functions[i]
                resolved == stack_grow_cumulative_by_function_address
                callees  == {resolved[g] : g \in function.call_addresses}
            IN  /\ function.address \in DOMAIN resolved
                /\ IF callees = {}
                   THEN resolved[function.address] = function.stack_grow
                   ELSE /\ \E c \in callees : resolved[function.address] = function.stack_grow + c
                        /\ \A c \in callees : resolved[function.address] >= function.stack_grow + c
                /\ resolved[function.address] = LongestPathStackGrow(function.address)

\* a returned result where some function has two callees of different cumulative growth
C1_Witness ==
    /\ solver_pc = "returned"
    /\ \E i \in DOMAIN parent_functions :
        \E g, h \in parent_functions[i].call_addresses :
            /\ stack_grow_cumulative_by_function_address[g]
                   < stack_grow_cumulative_by_function_address[h]
            /\ stack_grow_cumulative_by_function_address[parent_functions[i].address]
                   > parent_functions[i].stack_grow + stack_grow_cumulative_by_function_address[g]

\* C2: the solver ends with the cycle error exactly when the call graph has a directed
\* cycle (a self-call included); two mutually recursive functions are both listed in the
\* diagnostic; on an acyclic graph no function is left unresolved.
C2_CycleErrorIffCycle ==
    SolverFinished =>
        /\ (solver_pc = "raised") <=> HasCallCycle
        /\ \A i, j \in DOMAIN parent_functions :
            LET a == parent_functions[i]
                b == parent_functions[j]
            IN  (i /= j /\ b.address \in a.call_addresses /\ a.address \in b.call_addresses) =>
                    /\ solver_pc = "raised"
                    /\ {a.address, b.address} \subseteq function_addresses_unresolved
        /\ \A i \in DOMAIN parent_functions :
            parent_functions[i].address \in parent_functions[i].call_addresses =>
                /\ solver_pc = "raised"
                /\ parent_functions[i].address \in function_addresses_unresolved
        /\ ~HasCallCycle => function_addresses_unresolved = {}

\* the cycle error raised for a -> b -> a (no self-calls), both named
C2_Witness ==
    /\ solver_pc = "raised"
    /\ \A i \in DOMAIN parent_functions :
        parent_functions[i].address \notin parent_functions[i].call_addresses
    /\ \E i, j \in DOMAIN parent_functions :
        /\ i /= j
        /\ parent_functions[j].address \in parent_functions[i].call_addresses
        /\ parent_functions[i].address \in parent_functions[j].call_addresses
        /\ {parent_functions[i].address, parent_functions[j].address}
               \subseteq function_addresses_unresolved

\* C3 as claimed: every function left unresolved lies on a directed call cycle.
C3_UnresolvedOnCycle ==
    solver_pc = "raised" => \A address \in function_addresses_unresolved : OnCallCycle(address)

\* C3 as amended: every function left unresolved lies on a directed call cycle or calls,
\* directly or through other functions, a function that lies on one.
C3_UnresolvedReachCycle ==
    solver_pc = "raised" =>
        \A address \in function_addresses_unresolved : ReachesCallCycle(address)

\* the cycle error names a function that is on no cycle itself: it only calls into one
C3_Witness ==
    /\ solver_pc = "raised"
    /\ \E address \in function_addresses_unresolved :
        ~OnCallCycle(address) /\ ReachesCallCycle(address)


\* the addresses resolved so far
SolverResolved == DOMAIN stack_grow_cumulative_by_function_address

\* every pass before the current one resolved a function of its own, and a pass scans
\* only functions that are not resolved
SolverPassesProgress ==
    /\ passes <= Cardinality(SolverResolved) + 1
    /\ passes <= Len(parent_functions) + 1
    /\ \A i \in DOMAIN functions_unresolved : functions_unresolved[i].address \notin SolverResolved

\* a resolved function stays resolved, with the value it was given
SolverResolvedKept ==
    \A address \in SolverResolved :
        /\ address \in DOMAIN stack_grow_cumulative_by_function_address'
        /\ stack_grow_cumulative_by_function_address'[address]
               = stack_grow_cumulative_by_function_address[address]

\* C22: the solver terminates for every call graph, cyclic ones included: every pass but
\* the last resolves a function that was unresolved, so there are at most (number of
\* functions + 1) passes, and a resolved function is never scanned or changed again.
C22_SolverTerminates ==
    /\ []SolverPassesProgress
    /\ [][SolverResolvedKept]_vars
    /\ <>SolverFinished

\* a chain of three functions, each calling the next: one function is resolved per pass,
\* the fourth pass changes nothing
C22_Witness ==
    /\ solver_pc = "returned"
    /\ Len(parent_functions) = 3
    /\ passes = 4
    /\ parent_functions[1].call_addresses = {parent_functions[2].address}
    /\ parent_functions[2].call_addresses = {parent_functions[3].address}

\* a program with a cycle and a function outside it: the solver stops after two passes
C22_WitnessCycle ==
    /\ solver_pc = "raised"
    /\ passes = 2
    /\ SolverResolved /= {}

(***************************************************************************)
(* Entrypoint aggregator                                                   *)
(***************************************************************************)

\* number of priority groups that can preempt each other
PRIORITY_GROUPS == 4

\* "8 * 4": the bytes the processor stacks on exception entry
EXCEPTION_FRAME == 32

\* the boundary entrypoint stacks are aligned to
STACK_ALIGNMENT == 8

\* largest number of external interrupts of an input
MaxInterrupts == 3

\* functions.by_address of the input program, as {address: stack_grow_cumulative};
\* cumulative growths are word multiples (program/model.py Function)
ProgramFunctionsCumulative ==
    (0 :> 64) @@ (2 :> 16) @@ (4 :> 40) @@ (6 :> 56) @@ (8 :> 80) @@ (10 :> 20)
    @@ (12 :> 4) @@ (14 :> 12) @@ (16 :> 36) @@ (18 :> 0)

\* the NMI vector of an input: disabled, a function, an address no function lives at
InputNmiVectors == {None, 14, 98}

\* an absent optional vector (svcall, pendsv, systick are "... | None")
NoVector == [address |-> None, priority_group |-> None]

\* the priority group of a configurable vector: None (unspecified) or 0 <= group < PRIORITY_GROUPS
InputPriorityGroups == {None} \cup 0..(PRIORITY_GROUPS - 1)

\* the vector-with-priority-group values tried for SVCall, PendSV and SysTick
InputSystemVectors(address) ==
    {NoVector} \cup {[address |-> address, priority_group |-> g] : g \in {None, 0, PRIORITY_GROUPS - 1}}

InterruptNames == <<"IRQ0", "IRQ1", "IRQ2", "IRQ3", "IRQ4", "IRQ5", "IRQ6", "IRQ7">>

\* the EntrypointInterrupts of an input: numbered 0.., sorted by number
InputInterrupts(n, groups) ==
    [i \in 1..n |-> [number |-> i - 1,
                     name |-> InterruptNames[i],
                     vector_with_priority_group |->
                         [address |-> 2 * (i + 1), priority_group |-> groups[i]]]]

\* functions.by_address.get(address) is None
FunctionMissing(address) == address \notin DOMAIN ProgramFunctionsCumulative

\* a slip of CeilToAlignment: rounding down
FloorToAlignment(stack_grow) == (stack_grow \div STACK_ALIGNMENT) * STACK_ALIGNMENT

\* "ceil(stack_grow / 8) * 8"
CeilToAlignment(stack_grow) ==
    ((stack_grow + STACK_ALIGNMENT - 1) \div STACK_ALIGNMENT) * STACK_ALIGNMENT

\* stack_grow of resolve_entrypoint_from_entrypoint_vector
EntrypointStackGrow(stack_grow_cumulative, is_exception) ==
    CeilToAlignment(stack_grow_cumulative + (IF is_exception THEN EXCEPTION_FRAME ELSE 0))

\* resolve_entrypoint_from_entrypoint_vector, for a vector whose function exists
ResolveEntrypointFromEntrypointVector(address, name, is_exception) ==
    [address |-> address,
     name |-> name,
     stack_grow |-> EntrypointStackGrow(ProgramFunctionsCumulative[address], is_exception)]

\* max(entrypoint.stack_grow for entrypoint in entrypoints), entrypoints a non-empty list
MaxStackGrow(entrypoints_) ==
    LET grows == {entrypoints_[i].stack_grow : i \in DOMAIN entrypoints_}
    IN  CHOOSE m \in grows : \A x \in grows : x <= m

\* resolve_entrypoint_priority_group
ResolveEntrypointPriorityGroup(entrypoints_, name) ==
    [entrypoints |-> entrypoints_, name |-> name, stack_grow |-> MaxStackGrow(entrypoints_)]

\* group A: Reset, NMI when enabled, HardFault, each a group of its own
EntrypointsPriorityGroupsFixed(raw) ==
    <<ResolveEntrypointPriorityGroup(
          <<ResolveEntrypointFromEntrypointVector(raw.reset, "Reset", FALSE)>>, "Reset")>>
    \o (IF raw.nmi /= None
        THEN <<ResolveEntrypointPriorityGroup(
                   <<ResolveEntrypointFromEntrypointVector(raw.nmi, "NMI", TRUE)>>, "NMI")>>
        ELSE <<>>)
    \o <<ResolveEntrypointPriorityGroup(
             <<ResolveEntrypointFromEntrypointVector(raw.hardfault, "HardFault", TRUE)>>,
             "HardFault")>>

\* the vectors handle_vector_with_priority_group is called with, in call order
ConfigurableVectors(raw) ==
    (IF raw.svcall /= NoVector THEN <<[name |-> "SVCall", vector |-> raw.svcall]>> ELSE <<>>)
    \o (IF raw.pendsv /= NoVector THEN <<[name |-> "PendSV", vector |-> raw.pendsv]>> ELSE <<>>)
    \o (IF raw.systick /= NoVector THEN <<[name |-> "SysTick", vector |-> raw.systick]>> ELSE <<>>)
    \o [i \in DOMAIN raw.interrupts |->
            [name |-> raw.interrupts[i].name,
             vector |-> raw.interrupts[i].vector_with_priority_group]]

\* every vector address parse_entrypoints looks up
VectorAddresses(raw) ==
    {raw.reset, raw.hardfault}
    \cup (IF raw.nmi /= None THEN {raw.nmi} ELSE {})
    \cup {ConfigurableVectors(raw)[i].vector.address : i \in DOMAIN ConfigurableVectors(raw)}

\* "entrypoints_priority_known.setdefault(priority_group, []).append(entrypoint)":
\* the dict as a sequence of [priority_group, entrypoints] in insertion order
KnownAppend(known, priority_group, entrypoint) ==
    IF \E k \in DOMAIN known : known[k].priority_group = priority_group
    THEN [k \in DOMAIN known |->
            IF known[k].priority_group = priority_group
            THEN [known[k] EXCEPT !.entrypoints = Append(@, entrypoint)]
            ELSE known[k]]
    ELSE Append(known, [priority_group |-> priority_group, entrypoints |-> <<entrypoint>>])

\* the calls of handle_vector_with_priority_group, folded over the configurable vectors
RECURSIVE HandleVectorsWithPriorityGroup(_, _, _)
HandleVectorsWithPriorityGroup(vectors, known, unknown) ==
    IF vectors = <<>>
    THEN [known |-> known, unknown |-> unknown]
    ELSE LET entrypoint == ResolveEntrypointFromEntrypointVector(
                               Head(vectors).vector.address, Head(vectors).name, TRUE)
         IN  IF Head(vectors).vector.priority_group /= None
             THEN HandleVectorsWithPriorityGroup(
                      Tail(vectors),
                      KnownAppend(known, Head(vectors).vector.priority_group, entrypoint),
                      unknown)
             ELSE HandleVectorsWithPriorityGroup(Tail(vectors), known, Append(unknown, entrypoint))

PriorityGroupNames ==
    <<"Priority Group #0", "Priority Group #1", "Priority Group #2", "Priority Group #3">>

\* chain(groups of the known priorities, one group per entrypoint of unknown priority)
ConfigurablePriorityGroups(known, unknown) ==
    [k \in DOMAIN known |->
        ResolveEntrypointPriorityGroup(known[k].entrypoints,
                                       PriorityGroupNames[known[k].priority_group + 1])]
    \o [u \in DOMAIN unknown |->
        ResolveEntrypointPriorityGroup(<<unknown[u]>>, "Unknown priority group")]

\* a slip of SortedByStackGrow: reverse=True forgotten (stable, lightest first)
RECURSIVE SortedByStackGrowAscending(_)
SortedByStackGrowAscending(groups) ==
    IF groups = <<>>
    THEN <<>>
    ELSE LET front == SortedByStackGrowAscending(SubSeq(groups, 1, Len(groups) - 1))
             group == groups[Len(groups)]
             k == Cardinality({i \in DOMAIN front : front[i].stack_grow <= group.stack_grow})
         IN  SubSeq(front, 1, k) \o <<group>> \o SubSeq(front, k + 1, Len(front))

\* "sorted(..., key=lambda priority_group: priority_group.stack_grow, reverse=True)":
\* stable, heaviest first
RECURSIVE SortedByStackGrow(_)
SortedByStackGrow(groups) ==
    IF groups = <<>>
    THEN <<>>
    ELSE LET front == SortedByStackGrow(SubSeq(groups, 1, Len(groups) - 1))
             group == groups[Len(groups)]
             k == Cardinality({i \in DOMAIN front : front[i].stack_grow >= group.stack_grow})
         IN  SubSeq(front, 1, k) \o <<group>> \o SubSeq(front, k + 1, Len(front))

\* a slip of Islice: nothing is cut off
IsliceAll(sequence, stop) == sequence

\* islice(iterable, stop)
Islice(sequence, stop) == SubSeq(sequence, 1, IF Len(sequence) < stop THEN Len(sequence) ELSE stop)

\* sum(group.stack_grow for group in groups)
RECURSIVE SumStackGrow(_)
SumStackGrow(groups) ==
    IF groups = <<>> THEN 0 ELSE Head(groups).stack_grow + SumStackGrow(Tail(groups))

EntrypointsInit ==
    /\ RegionsIdle
    /\ SpIdle
    /\ DecoderIdle
    /\ TableIdle
    /\ OrderIdle
    /\ BlxIdle
    /\ PipelineIdle
    /\ SolverIdle
    /\ FunctionIdle
    /\ \E reset \in {0, 12}, nmi \in InputNmiVectors, n \in 0..MaxInterrupts :
        \E svcall \in InputSystemVectors(10), pendsv \in InputSystemVectors(12),
           systick \in InputSystemVectors(16), groups \in [1..n -> InputPriorityGroups] :
            parent_entrypoints = [reset |-> reset, nmi |-> nmi, hardfault |-> 2,
                                  svcall |-> svcall, pendsv |-> pendsv, systick |-> systick,
                                  interrupts |-> InputInterrupts(n, groups)]
    /\ entrypoints_priority_known = <<>>
    /\ entrypoints_priority_unknown = <<>>
    /\ entrypoints = <<>>
    /\ entrypoints_pc = "parse_entrypoints"

\* parse_entrypoints, every vector pointing at a function: the Entrypoints it returns
ParseEntrypointsReturn ==
    /\ entrypoints_pc = "parse_entrypoints"
    /\ \A address \in VectorAddresses(parent_entrypoints) : ~FunctionMissing(address)
    /\ LET handled == HandleVectorsWithPriorityGroup(
                          ConfigurableVectors(parent_entrypoints), <<>>, <<>>)
           entrypoints_priority_groups ==
               EntrypointsPriorityGroupsFixed(parent_entrypoints)
               \o Islice(SortedByStackGrow(
                             ConfigurablePriorityGroups(handled.known, handled.unknown)),
                         PRIORITY_GROUPS)
       IN  /\ entrypoints_priority_known' = handled.known
           /\ entrypoints_priority_unknown' = handled.unknown
           /\ entrypoints' = [priority_groups |-> entrypoints_priority_groups,
                              stack_size |-> SumStackGrow(entrypoints_priority_groups)]
    /\ entrypoints_pc' = "returned"
    /\ UNCHANGED parent_entrypoints
    /\ UNCHANGED entrypoints_others

\* parse_entrypoints, some vector pointing at no function: the ValueError of
\* resolve_entrypoint_from_entrypoint_vector
ParseEntrypointsRaise ==
    /\ entrypoints_pc = "parse_entrypoints"
    /\ \E address \in VectorAddresses(parent_entrypoints) : FunctionMissing(address)
    /\ entrypoints_pc' = "raised"
    /\ UNCHANGED <<parent_entrypoints, entrypoints_priority_known, entrypoints_priority_unknown,
                   entrypoints>>
    /\ UNCHANGED entrypoints_others

EntrypointsNext ==
    \/ ParseEntrypointsReturn
    \/ ParseEntrypointsRaise

SpecEntrypoints == EntrypointsInit /\ [][EntrypointsNext]_vars

(***************************************************************************)
(* Reference notions the aggregator's properties are stated with           *)
(***************************************************************************)

\* the smallest multiple of 8 that is >= x
SmallestMultipleOf8AtLeast(x) ==
    CHOOSE m \in 0..(x + 8) : m % 8 = 0 /\ m >= x /\ m - 8 < x

\* the configurable vectors of the input: SVCall, PendSV, SysTick when present, the interrupts
RefConfigurable ==
    {e \in {[name |-> "SVCall", vector |-> parent_entrypoints.svcall],
            [name |-> "PendSV", vector |-> parent_entrypoints.pendsv],
            [name |-> "SysTick", vector |-> parent_entrypoints.systick]} : e.vector /= NoVector}
    \cup {[name |-> parent_entrypoints.interrupts[i].name,
           vector |-> parent_entrypoints.interrupts[i].vector_with_priority_group] :
             i \in DOMAIN parent_entrypoints.interrupts}

\* stack growth of an exception or interrupt entered at the function at `address`
RefExceptionStackGrow(address) ==
    SmallestMultipleOf8AtLeast(ProgramFunctionsCumulative[address] + 32)

\* the configurable groups: one per priority index in use, one per vector of unknown priority
RefConfigurableGroups ==
    ({{e \in RefConfigurable : e.vector.priority_group = g} : g \in 0..3} \ {{}})
    \cup {{e} : e \in {u \in RefConfigurable : u.vector.priority_group = None}}

\* a group's stack growth: the largest among its members
RefGroupStackGrow(group) ==
    LET grows == {RefExceptionStackGrow(e.vector.address) : e \in group}
    IN  CHOOSE m \in grows : \A x \in grows : x <= m

RECURSIVE RefSumGroups(_)
RefSumGroups(groups) ==
    IF groups = {}
    THEN 0
    ELSE LET group == CHOOSE g \in groups : TRUE
         IN  RefGroupStackGrow(group) + RefSumGroups(groups \ {group})

\* the weight of the `count` heaviest configurable groups (all of them when there are fewer)
RefHeaviestGroupsSum(count) ==
    LET size == IF Cardinality(RefConfigurableGroups) < count
                THEN Cardinality(RefConfigurableGroups) ELSE count
        sums == {RefSumGroups(selection) :
                    selection \in {sel \in SUBSET RefConfigurableGroups : Cardinality(sel) = size}}
    IN  CHOOSE m \in sums : \A x \in sums : x <= m

\* Reset, HardFault and NMI when enabled, each counted on its own
RefFixedGroupsSum ==
    SmallestMultipleOf8AtLeast(ProgramFunctionsCumulative[parent_entrypoints.reset])
    + RefExceptionStackGrow(parent_entrypoints.hardfault)
    + (IF parent_entrypoints.nmi /= None THEN RefExceptionStackGrow(parent_entrypoints.nmi) ELSE 0)

\* scenario S5: Reset 64, HardFault 16, interrupts 40 at group 0, 56 at group 1, 80 unknown
S5Entrypoints ==
    [reset |-> 0, nmi |-> None, hardfault |-> 2,
     svcall |-> NoVector, pendsv |-> NoVector, systick |-> NoVector,
     interrupts |-> InputInterrupts(3, <<0, 1, None>>)]

\* C4: parse_entrypoints returns stack_size = the stack growth of Reset, HardFault and NMI
\* (when enabled), each a group of its own, plus that of the 4 heaviest configurable
\* groups, a configurable group being the vectors of one known priority index (growth =
\* max over the members) or one vector of unknown priority; with at most 4 configurable
\* groups all of them count; for scenario S5 the total is 384.
C4_StackSizeIsFixedPlusFourHeaviest ==
    entrypoints_pc = "returned" =>
        /\ entrypoints.stack_size = RefFixedGroupsSum + RefHeaviestGroupsSum(4)
        /\ Cardinality(RefConfigurableGroups) <= 4 =>
               entrypoints.stack_size = RefFixedGroupsSum + RefSumGroups(RefConfigurableGroups)
        /\ parent_entrypoints = S5Entrypoints => entrypoints.stack_size = 384

\* a result with NMI enabled and more than four configurable groups, one of them shared by
\* two vectors, where leaving groups out lowers the total
C4_Witness ==
    /\ entrypoints_pc = "returned"
    /\ parent_entrypoints.nmi /= None
    /\ Cardinality(RefConfigurableGroups) > 4
    /\ \E group \in RefConfigurableGroups : Cardinality(group) >= 2
    /\ entrypoints.stack_size < RefFixedGroupsSum + RefSumGroups(RefConfigurableGroups)

\* every Entrypoint of a returned result, and every one parse_entrypoints built on the way
C5_EntrypointsBuilt ==
    UNION {{entrypoints.priority_groups[g].entrypoints[i] :
                i \in DOMAIN entrypoints.priority_groups[g].entrypoints} :
           g \in DOMAIN entrypoints.priority_groups}
    \cup UNION {{entrypoints_priority_known[k].entrypoints[i] :
                    i \in DOMAIN entrypoints_priority_known[k].entrypoints} :
                k \in DOMAIN entrypoints_priority_known}
    \cup {entrypoints_priority_unknown[u] : u \in DOMAIN entrypoints_priority_unknown}

\* C5: every entrypoint's stack_grow is the smallest multiple of 8 that is >= the
\* cumulative growth of its function plus the frame, the frame being 32 for every
\* exception and interrupt and 0 for Reset only; so every entrypoint's and every priority
\* group's stack_grow, and the program's stack_size, is a non-negative multiple of 8.
C5_StackGrowAlignedWithFrame ==
    entrypoints_pc = "returned" =>
        /\ \A e \in C5_EntrypointsBuilt :
            /\ e.stack_grow = SmallestMultipleOf8AtLeast(
                                  ProgramFunctionsCumulative[e.address]
                                  + (IF e.name = "Reset" THEN 0 ELSE 32))
            /\ e.stack_grow >= 0 /\ e.stack_grow % 8 = 0
        /\ \A g \in DOMAIN entrypoints.priority_groups :
            /\ entrypoints.priority_groups[g].stack_grow >= 0
            /\ entrypoints.priority_groups[g].stack_grow % 8 = 0
        /\ entrypoints.stack_size >= 0 /\ entrypoints.stack_size % 8 = 0
        /\ {"Reset", "HardFault"} \subseteq {e.name : e \in C5_EntrypointsBuilt}
        /\ Cardinality(C5_EntrypointsBuilt)
               = 2 + (IF parent_entrypoints.nmi /= None THEN 1 ELSE 0) + Cardinality(RefConfigurable)

\* a result where rounding matters for Reset (4 -> 8), for NMI (12 + 32 -> 48) and for an
\* interrupt that the selection dropped
C5_Witness ==
    /\ entrypoints_pc = "returned"
    /\ ProgramFunctionsCumulative[parent_entrypoints.reset] % 8 /= 0
    /\ parent_entrypoints.nmi /= None
    /\ ProgramFunctionsCumulative[parent_entrypoints.nmi] % 8 /= 0
    /\ Cardinality(RefConfigurableGroups) > 4
    /\ \E e \in RefConfigurable : ProgramFunctionsCumulative[e.vector.address] % 8 /= 0


\* the configurable vectors of unknown priority, in the order of the vector table
RefUnknown ==
    LET IsUnknown(e) == e.vector /= NoVector /\ e.vector.priority_group = None
    IN  SelectSeq(<<[name |-> "SVCall", vector |-> parent_entrypoints.svcall],
                    [name |-> "PendSV", vector |-> parent_entrypoints.pendsv],
                    [name |-> "SysTick", vector |-> parent_entrypoints.systick]>>
                  \o [i \in DOMAIN parent_entrypoints.interrupts |->
                        [name |-> parent_entrypoints.interrupts[i].name,
                         vector |-> parent_entrypoints.interrupts[i].vector_with_priority_group]],
                  IsUnknown)

\* the stack_grow of the entrypoint parse_entrypoints builds for a configurable vector
RefEntrypointStackGrow(e) ==
    ResolveEntrypointFromEntrypointVector(e.vector.address, e.name, TRUE).stack_grow

\* the largest stack growth among the vectors configured with each priority index, 0
\* when there is none
RefKnownStackGrow ==
    [index \in 0..3 |->
        MaxDefault0({RefEntrypointStackGrow(e) :
                        e \in {c \in RefConfigurable : c.vector.priority_group = index}})]

\* the stack growth of each vector of unknown priority
RefUnknownStackGrow ==
    [u \in 1..Len(RefUnknown) |-> RefEntrypointStackGrow(RefUnknown[u])]

\* the largest stack growth at each priority index, under every assignment of the
\* first `count` vectors of unknown priority to the priority indices 0..3: an assigned
\* vector raises the largest growth at its index to its own when that is larger
RECURSIVE RefAssignmentMaxima(_, _, _)
RefAssignmentMaxima(known, unknown, count) ==
    IF count = 0
    THEN {known}
    ELSE {[maxima EXCEPT ![index] = IF unknown[count] > @ THEN unknown[count] ELSE @] :
             maxima \in RefAssignmentMaxima(known, unknown, count - 1), index \in 0..3}

\* the stack the four priority indices need together, under every assignment of the
\* vectors of unknown priority
RefAssignmentStackGrows ==
    {maxima[0] + maxima[1] + maxima[2] + maxima[3] :
        maxima \in RefAssignmentMaxima(RefKnownStackGrow, RefUnknownStackGrow, Len(RefUnknown))}

\* the configurable groups parse_entrypoints selected: those after Reset, NMI, HardFault
SelectedConfigurableGroups ==
    SubSeq(entrypoints.priority_groups,
           (IF parent_entrypoints.nmi /= None THEN 3 ELSE 2) + 1,
           Len(entrypoints.priority_groups))

\* C21: for every assignment of the entrypoints of unknown priority to the priority
\* indices 0..3, the entrypoints of known priority keeping theirs, the sum over the four
\* indices of the largest stack_grow at the index is at most the sum of the stack_grow of
\* the configurable groups parse_entrypoints selected, and some assignment attains it.
C21_SelectionIsWorstCase ==
    entrypoints_pc = "returned" =>
        /\ \A stack_grow \in RefAssignmentStackGrows :
              stack_grow <= SumStackGrow(SelectedConfigurableGroups)
        /\ SumStackGrow(SelectedConfigurableGroups) \in RefAssignmentStackGrows

\* more than four configurable groups, two vectors of unknown priority among them and a
\* known group of two vectors: some groups are left out of the selection
C21_Witness ==
    /\ entrypoints_pc = "returned"
    /\ Cardinality(RefConfigurableGroups) > 4
    /\ Len(RefUnknown) >= 2
    /\ \E group \in RefConfigurableGroups : Cardinality(group) >= 2
    /\ Len(SelectedConfigurableGroups) = 4
    /\ \E stack_grow \in RefAssignmentStackGrows :
          stack_grow < SumStackGrow(SelectedConfigurableGroups)

(***************************************************************************)
(* Per-function pipeline: instruction graph (s05), stack analyzer (s06)    *)
(***************************************************************************)

\* largest number of instructions of an input function
MaxInstructions == 3

\* function offset of the i-th instruction (two-byte encodings)
InputFunctionOffset(i) == 2 * (i - 1)

\* function.returns of the functions the input function may call, by address
FunctionReturnsByAddress == (100 :> TRUE) @@ (102 :> FALSE)

\* what the program-counter and stack-pointer resolvers give for an instruction;
\* pc is "None", "EffectBranch", "EffectCall", "EffectReturn" or "EffectInvalid",
\* add is Effect.add (SP = SP + add), 0 without stack-pointer effect
ResolvedEffects(pc, conditional, targets, add) ==
    [pc |-> pc, conditional |-> conditional, targets |-> targets, add |-> add]

\* the resolved instructions an input function of n instructions is made of
InputInstructions(n) ==
    LET function_offsets == {InputFunctionOffset(i) : i \in 1..n}
    IN  \* MOVS and the like; PUSH of one or two registers; POP of one register; SUB/ADD SP
        {ResolvedEffects("None", FALSE, {}, add) : add \in {-8, -4, 0, 4}}
        \* BX LR; POP {PC}; POP {R4, PC}
        \cup {ResolvedEffects("EffectReturn", FALSE, {}, add) : add \in {0, 4, 8}}
        \* UDF
        \cup {ResolvedEffects("EffectInvalid", FALSE, {}, 0)}
        \* BL / BLX to a function that returns, to one that does not, to either
        \cup {ResolvedEffects("EffectCall", FALSE, targets, 0) :
                targets \in (SUBSET DOMAIN FunctionReturnsByAddress) \ {{}}}
        \* B<cond> and B
        \cup {ResolvedEffects("EffectBranch", conditional, {target}, 0) :
                conditional \in BOOLEAN, target \in function_offsets}
        \* ADD PC, Rm with a two-entry jump table
        \cup {ResolvedEffects("EffectBranch", FALSE, targets, 0) :
                targets \in {t \in SUBSET function_offsets : Cardinality(t) = 2}}

\* a slip of S04ParseFunctionInstruction: every branch, conditional or not, may flow
\* to the next instruction
S04ParseFunctionInstructionFallThrough(resolved, function_offset, flow_function_offset) ==
    [function_offset |-> function_offset,
     program_counter_effect |->
        CASE resolved.pc = "EffectBranch" ->
                [type |-> "Flow",
                 function_offsets |-> resolved.targets \cup {flow_function_offset},
                 addresses |-> {},
                 return_function_offset |-> None]
          [] resolved.pc = "EffectCall" ->
                [type |-> "Call",
                 function_offsets |-> {},
                 addresses |-> resolved.targets,
                 return_function_offset |-> flow_function_offset]
          [] resolved.pc = "EffectReturn" ->
                [type |-> "Return", function_offsets |-> {}, addresses |-> {},
                 return_function_offset |-> None]
          [] resolved.pc = "EffectInvalid" ->
                [type |-> "Flow", function_offsets |-> {}, addresses |-> {},
                 return_function_offset |-> None]
          [] resolved.pc = "None" ->
                [type |-> "Flow", function_offsets |-> {flow_function_offset}, addresses |-> {},
                 return_function_offset |-> None],
     stack_grow |-> 0 - resolved.add]

\* s04 parse_function_instruction: the FunctionInstruction of a resolved instruction at
\* function_offset, flow_function_offset being the next instruction's offset or None
S04ParseFunctionInstruction(resolved, function_offset, flow_function_offset) ==
    [function_offset |-> function_offset,
     program_counter_effect |->
        CASE resolved.pc = "EffectBranch" ->
                [type |-> "Flow",
                 function_offsets |-> resolved.targets
                     \cup (IF resolved.conditional THEN {flow_function_offset} ELSE {}),
                 addresses |-> {},
                 return_function_offset |-> None]
          [] resolved.pc = "EffectCall" ->
                [type |-> "Call",
                 function_offsets |-> {},
                 addresses |-> resolved.targets,
                 return_function_offset |-> flow_function_offset]
          [] resolved.pc = "EffectReturn" ->
                [type |-> "Return", function_offsets |-> {}, addresses |-> {},
                 return_function_offset |-> None]
          [] resolved.pc = "EffectInvalid" ->
                [type |-> "Flow", function_offsets |-> {}, addresses |-> {},
                 return_function_offset |-> None]
          [] resolved.pc = "None" ->
                [type |-> "Flow", function_offsets |-> {flow_function_offset}, addresses |-> {},
                 return_function_offset |-> None],
     stack_grow |-> 0 - resolved.add]

\* the s04 FunctionInstructions of an input function
InputFunctionInstructions(n, resolved) ==
    [i \in 1..n |->
        S04ParseFunctionInstruction(resolved[i], InputFunctionOffset(i),
                                    IF i < n THEN InputFunctionOffset(i + 1) ELSE None)]

\* the s04 Functions assertion "callees must not return if caller has valid return
\* instruction": no call without return offset has a callee that returns
S04CalleesReturnIntoFunction(instructions) ==
    \A i \in DOMAIN instructions :
        (/\ instructions[i].program_counter_effect.type = "Call"
         /\ instructions[i].program_counter_effect.return_function_offset = None)
        => \A address \in instructions[i].program_counter_effect.addresses :
               ~FunctionReturnsByAddress[address]

\* instructions.by_function_offset[function_offset]
ByFunctionOffset(instructions, function_offset) ==
    instructions[CHOOSE i \in DOMAIN instructions :
                    instructions[i].function_offset = function_offset]

\* a slip of AnyCalleeReturns: every call is taken to come back
AnyCalleeReturnsAlways(addresses) == TRUE

\* "any(call_function_returns_by_address.values())"
AnyCalleeReturns(addresses) == \E address \in addresses : FunctionReturnsByAddress[address]

\* a slip of S05InstructionError: a call with nothing after it is taken to fall out
\* of the function even when no callee comes back
S05InstructionErrorCallToo(parent_function_instruction) ==
    LET effect == parent_function_instruction.program_counter_effect
    IN  IF \/ effect.type = "Flow" /\ None \in effect.function_offsets
           \/ effect.type = "Call" /\ effect.return_function_offset = None
        THEN "falls out of function boundary"
        ELSE ""

\* the ValueError s05 parse_function_instruction raises for an instruction, "" when none
S05InstructionError(parent_function_instruction) ==
    LET effect == parent_function_instruction.program_counter_effect
    IN  CASE effect.type = "Flow" /\ None \in effect.function_offsets ->
                "falls out of function boundary"
          [] /\ effect.type = "Call"
             /\ AnyCalleeReturns(effect.addresses)
             /\ effect.return_function_offset = None ->
                "return falls out of function boundary"
          [] OTHER -> ""

\* s05 parse_function_instruction for an instruction it accepts; function_offsets_next
\* None (a return) is function_offsets_next_none, the set being empty then
S05ParseFunctionInstruction(parent_function_instruction) ==
    LET effect == parent_function_instruction.program_counter_effect
    IN  [function_offset |-> parent_function_instruction.function_offset,
         function_offsets_next_none |-> effect.type = "Return",
         function_offsets_next |->
            CASE effect.type = "Flow" -> effect.function_offsets
              [] effect.type = "Call" ->
                    IF AnyCalleeReturns(effect.addresses)
                    THEN {effect.return_function_offset}
                    ELSE {}
              [] effect.type = "Return" -> {},
         call_addresses |-> IF effect.type = "Call" THEN effect.addresses ELSE {},
         stack_grow |-> parent_function_instruction.stack_grow]

\* the worklist loop of s05 parse_function_instructions: [error, instructions], the
\* instructions as a set; the offset popped is the smallest queued one
RECURSIVE S05Traverse(_, _, _, _)
S05Traverse(parent_instructions, function_offsets_queue_, function_offsets_closed_, function_instructions_) ==
    IF function_offsets_queue_ = {}
    THEN [error |-> "", instructions |-> function_instructions_]
    ELSE LET function_offset == CHOOSE o \in function_offsets_queue_ :
                                    \A q \in function_offsets_queue_ : o <= q
             closed == function_offsets_closed_ \cup {function_offset}
             parent_function_instruction == ByFunctionOffset(parent_instructions, function_offset)
             function_instruction == S05ParseFunctionInstruction(parent_function_instruction)
         IN  IF S05InstructionError(parent_function_instruction) /= ""
             THEN [error |-> S05InstructionError(parent_function_instruction),
                   instructions |-> function_instructions_]
             ELSE S05Traverse(parent_instructions,
                              (function_offsets_queue_ \ {function_offset})
                                  \cup (function_instruction.function_offsets_next \ closed),
                              closed,
                              function_instructions_ \cup {function_instruction})

\* "function_instructions.sort(key=lambda function_instruction: function_instruction.function_offset)"
RECURSIVE SortedByFunctionOffset(_)
SortedByFunctionOffset(function_instructions_) ==
    IF function_instructions_ = {}
    THEN <<>>
    ELSE LET first == CHOOSE a \in function_instructions_ :
                          \A b \in function_instructions_ : a.function_offset <= b.function_offset
         IN  <<first>> \o SortedByFunctionOffset(function_instructions_ \ {first})

\* a slip of S05ParseFunctionInstructions: every instruction of the function is
\* queued at the start, not the first one only
S05ParseFunctionInstructionsEvery(parent_instructions) ==
    LET traversed == S05Traverse(parent_instructions,
                                 {parent_instructions[i].function_offset :
                                     i \in DOMAIN parent_instructions},
                                 {}, {})
    IN  [error |-> traversed.error,
         instructions |-> SortedByFunctionOffset(traversed.instructions)]

\* s05 parse_function_instructions: [error, instructions], the instructions ordered by offset
S05ParseFunctionInstructions(parent_instructions) ==
    LET traversed == S05Traverse(parent_instructions, {0}, {}, {})
    IN  [error |-> traversed.error,
         instructions |-> SortedByFunctionOffset(traversed.instructions)]

FunctionInit ==
    /\ RegionsIdle
    /\ SpIdle
    /\ DecoderIdle
    /\ TableIdle
    /\ OrderIdle
    /\ BlxIdle
    /\ PipelineIdle
    /\ SolverIdle
    /\ EntrypointsIdle
    /\ \E n \in 1..MaxInstructions :
        \E resolved \in [1..n -> InputInstructions(n)] :
            /\ parent_function_instructions = InputFunctionInstructions(n, resolved)
            /\ S04CalleesReturnIntoFunction(parent_function_instructions)
    /\ function_instructions = <<>>
    /\ stack_grow_entry = 0
    /\ function_offsets_entry = {}
    /\ function_offsets_return_stack_grow_function_offsets = <<>>
    /\ function_analyzed = <<>>
    /\ function_error = ""
    /\ function_pc = "s05"

\* s05 parse_function, the graph accepted
FunctionGraphReturn ==
    /\ function_pc = "s05"
    /\ S05ParseFunctionInstructions(parent_function_instructions).error = ""
    /\ function_instructions' = S05ParseFunctionInstructions(parent_function_instructions).instructions
    /\ function_pc' = "s06"
    /\ UNCHANGED <<parent_function_instructions, stack_grow_entry, function_offsets_entry,
                   function_offsets_return_stack_grow_function_offsets, function_analyzed,
                   function_error>>
    /\ UNCHANGED function_others

\* s05 parse_function, a reachable instruction rejected with ValueError
FunctionGraphRaise ==
    /\ function_pc = "s05"
    /\ S05ParseFunctionInstructions(parent_function_instructions).error /= ""
    /\ function_error' = S05ParseFunctionInstructions(parent_function_instructions).error
    /\ function_pc' = "raised"
    /\ UNCHANGED <<parent_function_instructions, function_instructions, stack_grow_entry,
                   function_offsets_entry, function_offsets_return_stack_grow_function_offsets,
                   function_analyzed>>
    /\ UNCHANGED function_others

(* s06: resolve_function_stack_grow *)

\* FunctionInstructions.function_offsets_next.get(function_offset, set()): the mapping
\* leaves out the instructions whose function_offsets_next is None or empty
FunctionOffsetsNext(instructions, function_offset) ==
    ByFunctionOffset(instructions, function_offset).function_offsets_next

\* FunctionInstructions.function_offsets_previous.get(function_offset, set())
FunctionOffsetsPrevious(instructions, function_offset) ==
    {instructions[i].function_offset : i \in
        {j \in DOMAIN instructions : function_offset \in instructions[j].function_offsets_next}}

\* Function.returns of the instruction graph
FunctionReturns(instructions) ==
    \E i \in DOMAIN instructions : instructions[i].function_offsets_next_none

\* Function.call_addresses of the instruction graph
FunctionCallAddresses(instructions) ==
    UNION {instructions[i].call_addresses : i \in DOMAIN instructions}

\* a slip of EntryWalkJoins: the first instruction treated like the others
EntryWalkJoinsFirstLikeOthers(instructions, function_offset) ==
    Cardinality(FunctionOffsetsPrevious(instructions, function_offset)) /= 1

\* a slip of EntryWalkJoins: the incoming edges are not looked at
EntryWalkJoinsNever(instructions, function_offset) == FALSE

\* the entry walk is "in a cycle" at function_offset: the first instruction with an
\* incoming edge, or another instruction without exactly one
EntryWalkJoins(instructions, function_offset) ==
    IF function_offset = 0
    THEN Cardinality(FunctionOffsetsPrevious(instructions, function_offset)) /= 0
    ELSE Cardinality(FunctionOffsetsPrevious(instructions, function_offset)) /= 1

\* the entry walk stops before an instruction that calls or that shrinks the stack
EntryWalkStops(function_instruction) ==
    \/ function_instruction.call_addresses /= {}
    \/ function_instruction.stack_grow < 0

\* resolve_function_stack_grow_function_offsets_entry, the loop from function_offset on
RECURSIVE EntryWalk(_, _, _, _)
EntryWalk(instructions, function_offset, stack_grow, function_offsets) ==
    LET function_instruction == ByFunctionOffset(instructions, function_offset)
        function_offsets_next == FunctionOffsetsNext(instructions, function_offset)
        stopped == [stack_grow |-> stack_grow, function_offsets |-> function_offsets,
                    assertion |-> FALSE]
    IN  IF EntryWalkJoins(instructions, function_offset) THEN stopped
        ELSE IF EntryWalkStops(function_instruction) THEN stopped
        ELSE IF function_offset \in function_offsets
        THEN [stopped EXCEPT !.assertion = TRUE]
        ELSE IF Cardinality(function_offsets_next) = 1
        THEN EntryWalk(instructions,
                       CHOOSE function_offset_next \in function_offsets_next : TRUE,
                       stack_grow + function_instruction.stack_grow,
                       function_offsets \cup {function_offset})
        ELSE [stack_grow |-> stack_grow + function_instruction.stack_grow,
              function_offsets |-> function_offsets \cup {function_offset},
              assertion |-> FALSE]

\* a slip of ReturnWalkForks: only the return instruction is looked at
ReturnWalkForksAtReturnOnly(instructions, function_offset, function_offset_return) ==
    /\ function_offset = function_offset_return
    /\ Cardinality(FunctionOffsetsNext(instructions, function_offset)) /= 0

\* the return walk is at a branch: the return instruction with an outgoing edge, or
\* another instruction without exactly one
ReturnWalkForks(instructions, function_offset, function_offset_return) ==
    IF function_offset = function_offset_return
    THEN Cardinality(FunctionOffsetsNext(instructions, function_offset)) /= 0
    ELSE Cardinality(FunctionOffsetsNext(instructions, function_offset)) /= 1

\* a slip of ReturnWalkStops: ">=" in place of ">"
ReturnWalkStopsOnNoGrow(function_instruction) ==
    \/ function_instruction.call_addresses /= {}
    \/ function_instruction.stack_grow >= 0

\* the return walk stops before an instruction that calls or that grows the stack
ReturnWalkStops(function_instruction) ==
    \/ function_instruction.call_addresses /= {}
    \/ function_instruction.stack_grow > 0

\* resolve_function_stack_grow_function_offsets_return, the loop from function_offset on
RECURSIVE ReturnWalk(_, _, _, _, _)
ReturnWalk(instructions, function_offset_return, function_offset, stack_grow, function_offsets) ==
    LET function_instruction == ByFunctionOffset(instructions, function_offset)
        function_offsets_previous == FunctionOffsetsPrevious(instructions, function_offset)
        stopped == [stack_grow |-> stack_grow, function_offsets |-> function_offsets,
                    assertion |-> FALSE]
    IN  IF ReturnWalkForks(instructions, function_offset, function_offset_return) THEN stopped
        ELSE IF ReturnWalkStops(function_instruction) THEN stopped
        ELSE IF function_offset \in function_offsets
        THEN [stopped EXCEPT !.assertion = TRUE]
        ELSE IF Cardinality(function_offsets_previous) = 1
        THEN ReturnWalk(instructions, function_offset_return,
                        CHOOSE function_offset_previous \in function_offsets_previous : TRUE,
                        stack_grow + function_instruction.stack_grow,
                        function_offsets \cup {function_offset})
        ELSE [stack_grow |-> stack_grow + function_instruction.stack_grow,
              function_offsets |-> function_offsets \cup {function_offset},
              assertion |-> FALSE]

\* {return function offset: (stack grow, function offsets)}, one walk per returning instruction
FunctionOffsetsReturnStackGrowFunctionOffsets(instructions) ==
    [function_offset_return \in
        {instructions[i].function_offset : i \in
            {j \in DOMAIN instructions : instructions[j].function_offsets_next_none}}
     |-> ReturnWalk(instructions, function_offset_return, function_offset_return, 0, {})]

\* "stack_grows = list({stack_grow for stack_grow, _ in ....values()})"
StackGrows(returns) == {returns[function_offset_return].stack_grow :
                            function_offset_return \in DOMAIN returns}

\* a slip of ReturnsDiffer: the return paths are never compared
ReturnsDifferNever(returns) == FALSE

\* "match stack_grows: case [stack_grow]: pass; case _: raise", with at least one return
ReturnsDiffer(returns) == Cardinality(StackGrows(returns)) /= 1

\* "assert function_offsets_.isdisjoint(function_offsets)" fails for some return path
ReturnsOverlap(returns) ==
    \E a, b \in DOMAIN returns :
        a /= b /\ returns[a].function_offsets \cap returns[b].function_offsets /= {}

\* the stack_grow resolve_function_stack_grow_function_offsets_returns gives
StackGrowReturn(returns) == CHOOSE stack_grow \in StackGrows(returns) : TRUE

\* the function_offsets resolve_function_stack_grow_function_offsets_returns gives
FunctionOffsetsReturns(returns) ==
    UNION {returns[function_offset_return].function_offsets :
              function_offset_return \in DOMAIN returns}

\* a slip of StackNotReturnedToZero: the comparison is never made
StackNotReturnedToZeroNever(stack_grow_entry_, stack_grow_return) == FALSE

\* "if stack_grow_entry != -stack_grow_return: raise"
StackNotReturnedToZero(stack_grow_entry_, stack_grow_return) ==
    stack_grow_entry_ /= 0 - stack_grow_return

\* "function_offsets_stack_grow_all"
FunctionOffsetsStackGrowAll(instructions) ==
    {instructions[i].function_offset : i \in
        {j \in DOMAIN instructions : instructions[j].stack_grow /= 0}}

\* a slip of StackGrowUnreached: only the growing instructions are looked for
StackGrowUnreachedGrowingOnly(instructions, function_offsets_traversed) ==
    ~({instructions[i].function_offset : i \in
         {j \in DOMAIN instructions : instructions[j].stack_grow > 0}}
      \subseteq function_offsets_traversed)

\* "if not function_offsets_traversed >= function_offsets_stack_grow_all: raise"
StackGrowUnreached(instructions, function_offsets_traversed) ==
    ~(FunctionOffsetsStackGrowAll(instructions) \subseteq function_offsets_traversed)

\* a slip of ReturnsChecked: the return side is compared even when nothing returns
ReturnsCheckedAlways(returns) == TRUE

\* "if stack_grow_function_offsets_returns is not None"
ReturnsChecked(returns) == DOMAIN returns /= {}

\* the stack_grow_return the comparison sees; 0 stands for the missing one when
\* nothing returns, which only a slip of ReturnsChecked looks at
StackGrowReturnOrZero(returns) ==
    IF DOMAIN returns = {} THEN 0 ELSE StackGrowReturn(returns)

\* what stops resolve_function_stack_grow for the instruction graph, "" when it returns
FunctionStackGrowError(instructions) ==
    LET entry == EntryWalk(instructions, 0, 0, {})
        returns == FunctionOffsetsReturnStackGrowFunctionOffsets(instructions)
    IN  CASE entry.assertion -> "AssertionError"
          [] \E function_offset_return \in DOMAIN returns :
                returns[function_offset_return].assertion -> "AssertionError"
          [] DOMAIN returns /= {} /\ ReturnsDiffer(returns) ->
                "Different return paths results in differing stack sizes"
          [] ReturnsOverlap(returns) -> "AssertionError"
          [] (DOMAIN returns = {}) /= (~FunctionReturns(instructions)) -> "AssertionError"
          [] /\ ReturnsChecked(returns)
             /\ StackNotReturnedToZero(entry.stack_grow, StackGrowReturnOrZero(returns)) ->
                "Function stack size is not returned to zero"
          [] StackGrowUnreached(instructions,
                                entry.function_offsets
                                    \cup (IF ReturnsChecked(returns)
                                          THEN FunctionOffsetsReturns(returns) ELSE {})) ->
                "Unable to reach all instructions affecting stack"
          [] entry.stack_grow % 4 /= 0 ->
                "Function stack usage is not aligned to word boundary"
          [] OTHER -> ""

\* s06 parse_function, resolve_function_stack_grow returning stack_grow_entry
FunctionStackGrowReturn ==
    /\ function_pc = "s06"
    /\ FunctionStackGrowError(function_instructions) = ""
    /\ stack_grow_entry' = EntryWalk(function_instructions, 0, 0, {}).stack_grow
    /\ function_offsets_entry' = EntryWalk(function_instructions, 0, 0, {}).function_offsets
    /\ function_offsets_return_stack_grow_function_offsets' =
            FunctionOffsetsReturnStackGrowFunctionOffsets(function_instructions)
    /\ function_analyzed' = [address |-> 0,
                             stack_grow |-> stack_grow_entry',
                             call_addresses |-> FunctionCallAddresses(function_instructions)]
    /\ function_pc' = "returned"
    /\ UNCHANGED <<parent_function_instructions, function_instructions, function_error>>
    /\ UNCHANGED function_others

\* s06 parse_function, resolve_function_stack_grow raising
FunctionStackGrowRaise ==
    /\ function_pc = "s06"
    /\ FunctionStackGrowError(function_instructions) /= ""
    /\ function_error' = FunctionStackGrowError(function_instructions)
    /\ stack_grow_entry' = EntryWalk(function_instructions, 0, 0, {}).stack_grow
    /\ function_offsets_entry' = EntryWalk(function_instructions, 0, 0, {}).function_offsets
    /\ function_offsets_return_stack_grow_function_offsets' =
            FunctionOffsetsReturnStackGrowFunctionOffsets(function_instructions)
    /\ function_pc' = "raised"
    /\ UNCHANGED <<parent_function_instructions, function_instructions, function_analyzed>>
    /\ UNCHANGED function_others

FunctionNext ==
    \/ FunctionGraphReturn
    \/ FunctionGraphRaise
    \/ FunctionStackGrowReturn
    \/ FunctionStackGrowRaise

SpecFunction == FunctionInit /\ [][FunctionNext]_vars

\* s06 parse calls resolve_function_stack_grow on every instruction graph s05 built,
\* and the call is carried on until it returns or raises
SpecFunctionFair ==
    /\ FunctionInit
    /\ [][FunctionNext]_vars
    /\ WF_vars(FunctionStackGrowReturn \/ FunctionStackGrowRaise)

(***************************************************************************)
(* Properties of the per-function stack analyzer                           *)
(***************************************************************************)

\* resolve_function_stack_grow has run on the instruction graph
StackGrowResolved ==
    /\ function_pc \in {"returned", "raised"}
    /\ Len(function_instructions) > 0

RefOffsets == {function_instructions[i].function_offset : i \in DOMAIN function_instructions}

RefInstruction(offset) ==
    function_instructions[CHOOSE i \in DOMAIN function_instructions :
                              function_instructions[i].function_offset = offset]

RefSuccessors(offset) == RefInstruction(offset).function_offsets_next

RefPredecessors(offset) == {p \in RefOffsets : offset \in RefSuccessors(p)}

\* the reachable return instructions
RefReturnOffsets == {offset \in RefOffsets : RefInstruction(offset).function_offsets_next_none}

\* the offsets an offset sequence goes through
RefRange(chain) == {chain[i] : i \in DOMAIN chain}

\* the offset sequences no longer than the function
RefChains == UNION {[1..k -> RefOffsets] : k \in 1..Len(function_instructions)}

\* an instruction the entry walk may count: it is entered from one place only (the first
\* instruction from none), makes no call and does not shrink the stack
RefEntryCountable(offset) ==
    /\ IF offset = 0
       THEN RefPredecessors(offset) = {}
       ELSE Cardinality(RefPredecessors(offset)) = 1
    /\ RefInstruction(offset).call_addresses = {}
    /\ RefInstruction(offset).stack_grow >= 0

\* the offsets on a chain of countable instructions from the entry, each the only
\* successor of the one before
RefEntryOffsets ==
    UNION {RefRange(chain) : chain \in
        {c \in RefChains :
            /\ c[1] = 0
            /\ \A i \in DOMAIN c : RefEntryCountable(c[i])
            /\ \A i \in 1..(Len(c) - 1) : RefSuccessors(c[i]) = {c[i + 1]}}}

\* an instruction the return walk from a return instruction may count: it leaves to
\* one place only (the return instruction to none), makes no call and does not grow the stack
RefReturnCountable(offset, return_offset) ==
    /\ IF offset = return_offset
       THEN RefSuccessors(offset) = {}
       ELSE Cardinality(RefSuccessors(offset)) = 1
    /\ RefInstruction(offset).call_addresses = {}
    /\ RefInstruction(offset).stack_grow <= 0

\* the offsets on a chain of countable instructions back from a return instruction,
\* each the only predecessor of the one before
RefReturnOffsetsWalked(return_offset) ==
    UNION {RefRange(chain) : chain \in
        {c \in RefChains :
            /\ c[1] = return_offset
            /\ \A i \in DOMAIN c : RefReturnCountable(c[i], return_offset)
            /\ \A i \in 1..(Len(c) - 1) : RefPredecessors(c[i]) = {c[i + 1]}}}

\* the sum of the stack deltas of a set of instructions
RECURSIVE RefStackGrowSum(_)
RefStackGrowSum(offsets) ==
    IF offsets = {}
    THEN 0
    ELSE LET offset == CHOOSE o \in offsets : TRUE
         IN  RefInstruction(offset).stack_grow + RefStackGrowSum(offsets \ {offset})

RefEntrySum == RefStackGrowSum(RefEntryOffsets)

RefReturnSum(return_offset) == RefStackGrowSum(RefReturnOffsetsWalked(return_offset))

\* the instructions with a stack delta that neither the entry walk nor any return walk counts
RefUnwalkedStackOffsets ==
    {offset \in RefOffsets : RefInstruction(offset).stack_grow /= 0}
        \ (RefEntryOffsets \cup UNION {RefReturnOffsetsWalked(r) : r \in RefReturnOffsets})

\* C6: a function with a reachable return that resolve_function_stack_grow accepts has
\* a stack_grow that is a non-negative multiple of 4, equal to the sum of the entry walk
\* and to the negated sum of the return walk from every return instruction; a function
\* with a return whose entry sum and some return sum do not cancel is rejected.
C6_StackGrowConserved ==
    (StackGrowResolved /\ RefReturnOffsets /= {}) =>
        /\ function_pc = "returned" =>
              /\ function_analyzed.stack_grow >= 0
              /\ function_analyzed.stack_grow % 4 = 0
              /\ function_analyzed.stack_grow = RefEntrySum
              /\ stack_grow_entry = RefEntrySum
              /\ \A r \in RefReturnOffsets : function_analyzed.stack_grow = 0 - RefReturnSum(r)
        /\ (\E r \in RefReturnOffsets : RefEntrySum + RefReturnSum(r) /= 0) =>
              function_pc = "raised"

\* an accepted function that pushes on entry and whose return walk counts an
\* instruction before the return
C6_Witness ==
    /\ function_pc = "returned"
    /\ Cardinality(RefReturnOffsets) >= 1
    /\ function_analyzed.stack_grow > 0
    /\ \E r \in RefReturnOffsets : Cardinality(RefReturnOffsetsWalked(r)) > 1

\* C7: the differing-return-paths error is raised exactly when two reachable return
\* instructions have return walks of different sums.
C7_DifferingReturnsRejected ==
    StackGrowResolved =>
        ((function_error = "Different return paths results in differing stack sizes")
         <=> (\E r1, r2 \in RefReturnOffsets : RefReturnSum(r1) /= RefReturnSum(r2)))

\* two POP {..., PC} sites, one popping one register more, rejected
C7_Witness ==
    /\ function_pc = "raised"
    /\ function_error = "Different return paths results in differing stack sizes"
    /\ \E r1, r2 \in RefReturnOffsets :
          /\ RefInstruction(r1).stack_grow = -4
          /\ RefInstruction(r2).stack_grow = -8

\* C8: a function resolve_function_stack_grow accepts has every reachable instruction
\* with a stack delta on the entry walk or on some return walk; one with such an
\* instruction outside the walks is rejected, with or without a return, balanced or not.
C8_UnwalkedStackEffectRejected ==
    StackGrowResolved =>
        /\ function_pc = "returned" => RefUnwalkedStackOffsets = {}
        /\ RefUnwalkedStackOffsets /= {} => function_pc = "raised"
        /\ (/\ RefUnwalkedStackOffsets /= {}
            /\ \A r \in RefReturnOffsets : RefEntrySum + RefReturnSum(r) = 0
            /\ \A r1, r2 \in RefReturnOffsets : RefReturnSum(r1) = RefReturnSum(r2)) =>
              function_error = "Unable to reach all instructions affecting stack"

\* a stack adjustment after a call, sums in balance, rejected for the unreached instruction
C8_Witness ==
    /\ function_pc = "raised"
    /\ function_error = "Unable to reach all instructions affecting stack"
    /\ RefReturnOffsets /= {}
    /\ \A r \in RefReturnOffsets : RefEntrySum + RefReturnSum(r) = 0
    /\ \E offset \in RefUnwalkedStackOffsets :
          \E p \in RefPredecessors(offset) : RefInstruction(p).call_addresses /= {}

\* C9: a function without reachable return instruction is never rejected for differing
\* return paths nor for a stack not returned to zero, no return walk is made, and when
\* it is accepted its stack_grow is the sum of the entry walk.
C9_NoReturnNoConservation ==
    (StackGrowResolved /\ RefReturnOffsets = {}) =>
        /\ function_error /= "Different return paths results in differing stack sizes"
        /\ function_error /= "Function stack size is not returned to zero"
        /\ DOMAIN function_offsets_return_stack_grow_function_offsets = {}
        /\ function_pc = "returned" =>
              /\ function_analyzed.stack_grow = RefEntrySum
              /\ function_analyzed.stack_grow = stack_grow_entry

\* a function that pushes and ends in UDF, accepted with the pushed bytes
C9_Witness ==
    /\ function_pc = "returned"
    /\ RefReturnOffsets = {}
    /\ function_analyzed.stack_grow > 0
    /\ \E offset \in RefOffsets : RefSuccessors(offset) = {}

\* the input function is straight-line and call-free: every instruction flows into the
\* next one only and the last one returns
StraightLine ==
    \A i \in DOMAIN parent_function_instructions :
        LET effect == parent_function_instructions[i].program_counter_effect
        IN  IF i < Len(parent_function_instructions)
            THEN /\ effect.type = "Flow"
                 /\ effect.function_offsets = {parent_function_instructions[i + 1].function_offset}
            ELSE effect.type = "Return"

\* the stack-growing instructions of the input function all precede the shrinking ones
GrowBeforeShrink ==
    \A i, j \in DOMAIN parent_function_instructions :
        (/\ parent_function_instructions[i].stack_grow < 0
         /\ parent_function_instructions[j].stack_grow > 0) => j < i

\* the bytes the first k instructions of the input function push
RECURSIVE InputBytesPushed(_)
InputBytesPushed(k) ==
    IF k = 0
    THEN 0
    ELSE (IF parent_function_instructions[k].stack_grow > 0
          THEN parent_function_instructions[k].stack_grow ELSE 0)
         + InputBytesPushed(k - 1)

\* the sum of the stack deltas of the first k instructions of the input function
RECURSIVE InputDeltasSum(_)
InputDeltasSum(k) ==
    IF k = 0
    THEN 0
    ELSE parent_function_instructions[k].stack_grow + InputDeltasSum(k - 1)

BytesPushed == InputBytesPushed(Len(parent_function_instructions))

DeltasSum == InputDeltasSum(Len(parent_function_instructions))

\* the stack deltas of the input function, in order
InputStackGrows ==
    [i \in DOMAIN parent_function_instructions |-> parent_function_instructions[i].stack_grow]

\* C10: a straight-line, call-free function whose growing instructions precede its
\* shrinking ones and whose deltas sum to zero is accepted with stack_grow the bytes
\* pushed, an empty call set and a cumulative stack growth equal to stack_grow;
\* PUSH {R4, LR}; MOVS; POP {R4, PC} gives 8 and a single BX LR gives 0.
C10_StraightLineAccepted ==
    (StraightLine /\ GrowBeforeShrink /\ DeltasSum = 0) =>
        /\ function_pc /= "raised"
        /\ function_pc = "returned" =>
              /\ function_analyzed.stack_grow = BytesPushed
              /\ function_analyzed.call_addresses = {}
              /\ CalleesResolved(function_analyzed, <<>>)
              /\ StackGrowCumulative(function_analyzed, <<>>) = function_analyzed.stack_grow
              /\ InputStackGrows = <<8, 0, -8>> => function_analyzed.stack_grow = 8
              /\ InputStackGrows = <<0>> => function_analyzed.stack_grow = 0

\* PUSH {R4, LR}; MOVS; POP {R4, PC} accepted with 8 bytes
C10_Witness ==
    /\ function_pc = "returned"
    /\ StraightLine
    /\ InputStackGrows = <<8, 0, -8>>
    /\ function_analyzed.stack_grow = 8

\* the instruction graph has been built or rejected
GraphResolved == function_pc /= "s05"

\* the instruction graph has been accepted
GraphAccepted == GraphResolved /\ function_instructions /= <<>>

ParentOffsets ==
    {parent_function_instructions[i].function_offset : i \in DOMAIN parent_function_instructions}

ParentInstruction(offset) ==
    parent_function_instructions[CHOOSE i \in DOMAIN parent_function_instructions :
                                     parent_function_instructions[i].function_offset = offset]

\* a Flow instruction one of whose successors is outside the function
ParentFallsOut(offset) ==
    /\ ParentInstruction(offset).program_counter_effect.type = "Flow"
    /\ None \in ParentInstruction(offset).program_counter_effect.function_offsets

\* the successor edges of an instruction inside the function: the flow targets, and
\* after a call the next instruction when one of the callees comes back
ParentSuccessors(offset) ==
    LET effect == ParentInstruction(offset).program_counter_effect
    IN  IF effect.type = "Flow"
        THEN effect.function_offsets \ {None}
        ELSE IF effect.type = "Call" /\ TRUE \in {FunctionReturnsByAddress[a] : a \in effect.addresses}
             THEN {effect.return_function_offset} \ {None}
             ELSE {}

\* the offset sequences from offset 0 along successor edges, no longer than the function
ParentPaths ==
    {path \in UNION {[1..k -> ParentOffsets] : k \in 1..Len(parent_function_instructions)} :
        /\ path[1] = 0
        /\ \A i \in 1..(Len(path) - 1) : path[i + 1] \in ParentSuccessors(path[i])}

\* the instructions reachable from offset 0
ParentReachable == {path[Len(path)] : path \in ParentPaths}

\* C14: an accepted instruction graph holds exactly the instructions reachable from
\* offset 0 along successor edges, each once and ordered by offset; the unreachable ones
\* are left out and every successor of an output instruction is in the output.
C14_OutputIsReachableClosure ==
    GraphAccepted =>
        /\ RefOffsets = ParentReachable
        /\ \A i, j \in DOMAIN function_instructions :
               i < j => function_instructions[i].function_offset
                            < function_instructions[j].function_offset
        /\ \A offset \in RefOffsets :
               /\ RefInstruction(offset).stack_grow = ParentInstruction(offset).stack_grow
               /\ RefSuccessors(offset) = ParentSuccessors(offset)
               /\ RefSuccessors(offset) \subseteq RefOffsets
        /\ \A offset \in ParentOffsets \ ParentReachable : offset \notin RefOffsets

\* B over a MOVS to a BX LR: the MOVS is left out
C14_Witness ==
    /\ GraphAccepted
    /\ ParentOffsets = {0, 2, 4}
    /\ ParentSuccessors(0) = {4}
    /\ RefOffsets = {0, 4}
    /\ function_pc = "returned"

\* C15: the graph builder raises the falls-out-of-function-boundary rejection exactly
\* when an instruction reachable from offset 0 is a Flow with a successor outside the
\* function; such an instruction that is not reachable never causes the rejection.
C15_FallsOutIffReachable ==
    GraphResolved =>
        /\ (function_error = "falls out of function boundary")
               <=> (\E offset \in ParentReachable : ParentFallsOut(offset))
        /\ (/\ \E offset \in ParentOffsets : ParentFallsOut(offset)
            /\ \A offset \in ParentReachable : ~ParentFallsOut(offset))
               => GraphAccepted

\* BX LR followed by a MOVS that would fall out: accepted, the MOVS not being reachable
C15_Witness ==
    /\ GraphAccepted
    /\ ParentOffsets = {0, 2}
    /\ ParentFallsOut(2)
    /\ ParentReachable = {0}
    /\ function_pc = "returned"

\* offsets of the returning instructions of the instruction graph
FunctionOffsetsReturning ==
    {function_instructions[i].function_offset : i \in
        {j \in DOMAIN function_instructions : function_instructions[j].function_offsets_next_none}}

\* instructions of the graph with an edge to function_offset
PredecessorsInGraph(function_offset) ==
    {i \in DOMAIN function_instructions :
        function_offset \in function_instructions[i].function_offsets_next}

\* edges leaving the instruction at function_offset
SuccessorsInGraph(function_offset) ==
    UNION {function_instructions[i].function_offsets_next : i \in
              {j \in DOMAIN function_instructions :
                  function_instructions[j].function_offset = function_offset}}

\* the graph has a cycle through function_offset
RECURSIVE ReachableFrom(_, _)
ReachableFrom(frontier, seen) ==
    LET next == UNION {SuccessorsInGraph(function_offset) : function_offset \in frontier}
    IN  IF next \subseteq seen THEN seen ELSE ReachableFrom(next \ seen, seen \cup next)

OnCycle(function_offset) ==
    function_offset \in ReachableFrom({function_offset}, {})

\* no walk met an offset it had recorded, and the offsets recorded are joined as the
\* walks require
WalksVisitOnce ==
    StackGrowResolved =>
        /\ function_error # "AssertionError"
        /\ ~EntryWalk(function_instructions, 0, 0, {}).assertion
        /\ DOMAIN function_offsets_return_stack_grow_function_offsets = FunctionOffsetsReturning
        /\ \A function_offset_return \in FunctionOffsetsReturning :
              ~function_offsets_return_stack_grow_function_offsets[function_offset_return].assertion
        /\ \A function_offset \in function_offsets_entry \ {0} :
              Cardinality(PredecessorsInGraph(function_offset)) = 1
        /\ \A function_offset_return \in FunctionOffsetsReturning :
              \A function_offset \in
                    function_offsets_return_stack_grow_function_offsets[function_offset_return]
                        .function_offsets \ {function_offset_return} :
                  Cardinality(SuccessorsInGraph(function_offset)) = 1

\* C29: on every instruction graph, loops included, the entry walk and every return
\* walk end, and no walk visits an offset twice: the "not already visited" assertions
\* hold; an offset the entry walk recorded, other than 0, has exactly one predecessor,
\* and an offset a return walk recorded, other than the return, exactly one successor.
C29_WalksTerminateVisitingOnce ==
    /\ []WalksVisitOnce
    /\ (function_pc = "s06") ~> (function_pc \in {"returned", "raised"})

\* MOVS; B<cond> 0; BX LR: the walks have run on a graph with the loop 0 -> 2 -> 0; the
\* entry walk stopped at once, the return walk recorded the BX LR only
C29_Witness ==
    /\ StackGrowResolved
    /\ Len(function_instructions) = 3
    /\ OnCycle(0)
    /\ OnCycle(2)
    /\ FunctionOffsetsReturning = {4}
    /\ function_offsets_entry = {}
    /\ function_offsets_return_stack_grow_function_offsets[4].function_offsets = {4}

\* a walk of more than one offset next to a loop: 0 -> 2 -> 2 has the entry walk
\* record 0 and stop at the instruction that branches to itself
C29_WitnessLoopAfterEntry ==
    /\ StackGrowResolved
    /\ function_offsets_entry = {0}
    /\ OnCycle(2)
    /\ 2 \in SuccessorsInGraph(0)

\* C30: the offset sets the return walks from two distinct return instructions record
\* are disjoint, and the disjointness assertion made when they are combined holds.
C30_ReturnWalksDisjoint ==
    StackGrowResolved =>
        /\ function_error # "AssertionError"
        /\ \A a \in FunctionOffsetsReturning, b \in FunctionOffsetsReturning :
              a # b =>
                  function_offsets_return_stack_grow_function_offsets[a].function_offsets
                      \cap function_offsets_return_stack_grow_function_offsets[b].function_offsets
                  = {}

\* B<cond> 4; BX LR; BX LR: two return walks, each recording its own return only, the
\* branch they both come from being a fork
C30_Witness ==
    /\ StackGrowResolved
    /\ FunctionOffsetsReturning = {2, 4}
    /\ SuccessorsInGraph(0) = {2, 4}
    /\ function_offsets_return_stack_grow_function_offsets[2].function_offsets = {2}
    /\ function_offsets_return_stack_grow_function_offsets[4].function_offsets = {4}

(***************************************************************************)
(* Analysis pipeline over a program: s04, s05, s06, cumulative solver      *)
(***************************************************************************)

\* largest number of functions of an input program of the pipeline
MaxProgramFunctions == 3

\* the i-th function of an input program; the first two are the functions at the
\* addresses the call instructions of InputInstructions name
ProgramFunctionAddress(i) == 100 + 2 * (i - 1)

\* an instruction whose program-counter or stack-pointer resolver raises ResolveException
ResolveException == ResolvedEffects("ResolveException", FALSE, {}, 0)

\* function bodies of the input programs, as what the resolvers give per instruction
InputFunctionBodies ==
    LET Ordinary(add) == ResolvedEffects("None", FALSE, {}, add)
        Return(add) == ResolvedEffects("EffectReturn", FALSE, {}, add)
        Call(targets) == ResolvedEffects("EffectCall", FALSE, targets, 0)
        Branch(conditional, target) == ResolvedEffects("EffectBranch", conditional, {target}, 0)
        Invalid == ResolvedEffects("EffectInvalid", FALSE, {}, 0)
    IN  {<<Return(0)>>,                                   \* BX LR
         <<Ordinary(-8), Ordinary(0), Return(8)>>,        \* PUSH {R4, LR}; MOVS; POP {R4, PC}
         <<Ordinary(-4), Call({102}), Ordinary(0)>>,      \* PUSH {LR}; BL panic; padding
         <<Branch(FALSE, 0)>>,                            \* B .
         <<Ordinary(-4), Call({100}), Return(4)>>,        \* PUSH {LR}; BL f; POP {PC}
         <<Call({100, 102}), Return(0)>>,                 \* BLX Rm with two targets; BX LR
         <<Call({102})>>,                                 \* BL panic, last instruction
         <<Call({100})>>,                                 \* BL f, last instruction
         <<ResolveException>>,                            \* MOV SP, Rm
         <<Ordinary(0), ResolveException, ResolveException>>,
         <<Branch(TRUE, 4), Return(0), Ordinary(0)>>,     \* B<cond> over BX LR to a MOVS that falls out
         <<Ordinary(0)>>,                                 \* MOVS that falls out
         <<Ordinary(-4), Return(0)>>,                     \* PUSH {LR}; BX LR
         <<Call({100}), Ordinary(-4), Invalid>>,          \* BL f; PUSH {LR}; UDF
         <<Branch(FALSE, 8)>>,                            \* B past the end of the function
         <<Branch(FALSE, 0), Return(0)>>,                 \* B .; BX LR that is never reached
         <<Branch(TRUE, 0)>>,                             \* B<cond> ., last instruction
         \* ADD PC, Rm with a jump table of two entries; BX LR; BX LR
         <<ResolvedEffects("EffectBranch", FALSE, {2, 4}, 0), Return(0), Return(0)>>}

\* s04 parse_function_instructions raises ParseFunctionInstructionsException: the
\* resolvers raised for some instruction
S04ParseFunctionInstructionsExcepts(resolved) ==
    \E i \in DOMAIN resolved : resolved[i].pc = "ResolveException"

\* s04 validate_function_instructions: "flow_function_offsets_invalid" is not empty
FlowFunctionOffsetsInvalid(instructions) ==
    \E i \in DOMAIN instructions :
        /\ instructions[i].program_counter_effect.type = "Flow"
        /\ \E function_offset \in instructions[i].program_counter_effect.function_offsets :
              /\ function_offset /= None
              /\ function_offset \notin
                    {instructions[j].function_offset : j \in DOMAIN instructions}

\* s04 Function.returns: some instruction, reachable or not, has the Return effect
S04FunctionReturns(instructions) ==
    \E i \in DOMAIN instructions : instructions[i].program_counter_effect.type = "Return"

\* the function at `address` of an input program returns as its callers are told
\* it does (function_returns_by_address), when s04 builds it at all
InputFunctionReturnsAsCalled(address, resolved) ==
    (/\ address \in DOMAIN FunctionReturnsByAddress
     /\ ~S04ParseFunctionInstructionsExcepts(resolved)) =>
        S04FunctionReturns(InputFunctionInstructions(Len(resolved), resolved))
            = FunctionReturnsByAddress[address]

\* the decoded functions of an input program
InputProgramFunctions(n, bodies) ==
    [i \in 1..n |-> [address |-> ProgramFunctionAddress(i), resolved |-> bodies[i]]]

\* by_address.keys() of a functions list
AddressesOf(functions) == {functions[i].address : i \in DOMAIN functions}

\* s04 validate_functions: "function_calls_missing" is not empty
FunctionCallsMissing(functions) ==
    \E i \in DOMAIN functions : \E k \in DOMAIN functions[i].instructions :
        /\ functions[i].instructions[k].program_counter_effect.type = "Call"
        /\ \E call_address \in functions[i].instructions[k].program_counter_effect.addresses :
              call_address \notin AddressesOf(functions)

\* s04 validate_functions: "function_calls_invalid_return" is not empty
FunctionCallsInvalidReturn(functions) ==
    \E i \in DOMAIN functions : \E k \in DOMAIN functions[i].instructions :
        LET effect == functions[i].instructions[k].program_counter_effect
        IN  /\ effect.type = "Call"
            /\ effect.return_function_offset = None
            /\ \E j \in DOMAIN functions :
                  /\ functions[j].address \in effect.addresses
                  /\ S04FunctionReturns(functions[j].instructions)

PipelineInit ==
    /\ RegionsIdle
    /\ SpIdle
    /\ DecoderIdle
    /\ TableIdle
    /\ OrderIdle
    /\ BlxIdle
    /\ SolverIdle
    /\ EntrypointsIdle
    /\ FunctionIdle
    /\ \E n \in 1..MaxProgramFunctions :
        \E bodies \in [1..n -> InputFunctionBodies] :
            /\ \A i \in 1..n : InputFunctionReturnsAsCalled(ProgramFunctionAddress(i), bodies[i])
            /\ s03_instructions_decode_functions = InputProgramFunctions(n, bodies)
    /\ s04_instructions_effect_functions = <<>>
    /\ exceptions = <<>>
    /\ s05_instructions_graph_functions = <<>>
    /\ s06_functions_effect_functions = <<>>
    /\ functions_ = <<>>
    /\ pipeline_index = 0
    /\ pipeline_error = ""
    /\ pipeline_error_functions = <<>>
    /\ pipeline_pc = "s04"

\* the function the running stage takes next from its input
PipelineFunction(parent_functions_) == parent_functions_[pipeline_index + 1]

\* s04 parse, one iteration of "for parent_function in parent_functions.inner": the
\* function is parsed and appended to functions
S04ParseFunction ==
    /\ pipeline_pc = "s04"
    /\ pipeline_index < Len(s03_instructions_decode_functions)
    /\ LET parent_function == PipelineFunction(s03_instructions_decode_functions)
           instructions == InputFunctionInstructions(Len(parent_function.resolved),
                                                     parent_function.resolved)
       IN  /\ ~S04ParseFunctionInstructionsExcepts(parent_function.resolved)
           /\ ~FlowFunctionOffsetsInvalid(instructions)
           /\ s04_instructions_effect_functions' =
                  Append(s04_instructions_effect_functions,
                         [address |-> parent_function.address, instructions |-> instructions])
    /\ pipeline_index' = pipeline_index + 1
    /\ UNCHANGED <<s03_instructions_decode_functions, exceptions, s05_instructions_graph_functions,
                   s06_functions_effect_functions, functions_, pipeline_error,
                   pipeline_error_functions, pipeline_pc>>
    /\ UNCHANGED pipeline_others

\* s04 parse, one iteration: parse_function raises ParseFunctionInstructionsException,
\* which is appended to exceptions
S04ParseFunctionExcept ==
    /\ pipeline_pc = "s04"
    /\ pipeline_index < Len(s03_instructions_decode_functions)
    /\ LET parent_function == PipelineFunction(s03_instructions_decode_functions)
       IN  /\ S04ParseFunctionInstructionsExcepts(parent_function.resolved)
           /\ exceptions' = Append(exceptions, parent_function.address)
    /\ pipeline_index' = pipeline_index + 1
    /\ UNCHANGED <<s03_instructions_decode_functions, s04_instructions_effect_functions,
                   s05_instructions_graph_functions, s06_functions_effect_functions, functions_,
                   pipeline_error, pipeline_error_functions, pipeline_pc>>
    /\ UNCHANGED pipeline_others

\* s04 parse, one iteration: validate_function_instructions raises ValueError, which
\* the loop does not catch
S04ParseFunctionRaise ==
    /\ pipeline_pc = "s04"
    /\ pipeline_index < Len(s03_instructions_decode_functions)
    /\ LET parent_function == PipelineFunction(s03_instructions_decode_functions)
           instructions == InputFunctionInstructions(Len(parent_function.resolved),
                                                     parent_function.resolved)
       IN  /\ ~S04ParseFunctionInstructionsExcepts(parent_function.resolved)
           /\ FlowFunctionOffsetsInvalid(instructions)
           /\ pipeline_error_functions' = <<parent_function.address>>
    /\ pipeline_error' = "Found instruction flow / branch (not call) reaching instruction out of function boundaries"
    /\ pipeline_pc' = "raised"
    /\ UNCHANGED <<s03_instructions_decode_functions, s04_instructions_effect_functions, exceptions,
                   s05_instructions_graph_functions, s06_functions_effect_functions, functions_,
                   pipeline_index>>
    /\ UNCHANGED pipeline_others

\* s04 parse, after the loop: "if exceptions: raise ExceptionGroup", else validate_functions raises
S04ParseRaise ==
    /\ pipeline_pc = "s04"
    /\ pipeline_index = Len(s03_instructions_decode_functions)
    /\ \/ /\ exceptions /= <<>>
          /\ pipeline_error' = "Exceptions encountered while parsing functions"
          /\ pipeline_error_functions' = exceptions
       \/ /\ exceptions = <<>>
          /\ FunctionCallsMissing(s04_instructions_effect_functions)
          /\ pipeline_error' = "Found calls to non-existing functions"
          /\ pipeline_error_functions' = <<>>
       \/ /\ exceptions = <<>>
          /\ ~FunctionCallsMissing(s04_instructions_effect_functions)
          /\ FunctionCallsInvalidReturn(s04_instructions_effect_functions)
          /\ pipeline_error' = "Found impossible return address"
          /\ pipeline_error_functions' = <<>>
    /\ pipeline_pc' = "raised"
    /\ UNCHANGED <<s03_instructions_decode_functions, s04_instructions_effect_functions, exceptions,
                   s05_instructions_graph_functions, s06_functions_effect_functions, functions_,
                   pipeline_index>>
    /\ UNCHANGED pipeline_others

\* s04 parse returns Functions(functions); s05 parse starts
S04ParseReturn ==
    /\ pipeline_pc = "s04"
    /\ pipeline_index = Len(s03_instructions_decode_functions)
    /\ exceptions = <<>>
    /\ ~FunctionCallsMissing(s04_instructions_effect_functions)
    /\ ~FunctionCallsInvalidReturn(s04_instructions_effect_functions)
    /\ pipeline_index' = 0
    /\ pipeline_pc' = "s05"
    /\ UNCHANGED <<s03_instructions_decode_functions, s04_instructions_effect_functions, exceptions,
                   s05_instructions_graph_functions, s06_functions_effect_functions, functions_,
                   pipeline_error, pipeline_error_functions>>
    /\ UNCHANGED pipeline_others

\* s05 parse, one function of the list comprehension: its graph is built
S05ParseFunction ==
    /\ pipeline_pc = "s05"
    /\ pipeline_index < Len(s04_instructions_effect_functions)
    /\ LET parent_function == PipelineFunction(s04_instructions_effect_functions)
           parsed == S05ParseFunctionInstructions(parent_function.instructions)
       IN  /\ parsed.error = ""
           /\ s05_instructions_graph_functions' =
                  Append(s05_instructions_graph_functions,
                         [address |-> parent_function.address,
                          instructions |-> parsed.instructions])
    /\ pipeline_index' = pipeline_index + 1
    /\ UNCHANGED <<s03_instructions_decode_functions, s04_instructions_effect_functions, exceptions,
                   s06_functions_effect_functions, functions_, pipeline_error,
                   pipeline_error_functions, pipeline_pc>>
    /\ UNCHANGED pipeline_others

\* s05 parse, one function of the list comprehension: parse_function raises
\* ValueError, which leaves the comprehension and parse
S05ParseFunctionRaise ==
    /\ pipeline_pc = "s05"
    /\ pipeline_index < Len(s04_instructions_effect_functions)
    /\ LET parent_function == PipelineFunction(s04_instructions_effect_functions)
           parsed == S05ParseFunctionInstructions(parent_function.instructions)
       IN  /\ parsed.error /= ""
           /\ pipeline_error' = parsed.error
           /\ pipeline_error_functions' = <<parent_function.address>>
    /\ pipeline_pc' = "raised"
    /\ UNCHANGED <<s03_instructions_decode_functions, s04_instructions_effect_functions, exceptions,
                   s05_instructions_graph_functions, s06_functions_effect_functions, functions_,
                   pipeline_index>>
    /\ UNCHANGED pipeline_others

\* s05 parse returns Functions(functions); s06 parse starts
S05ParseReturn ==
    /\ pipeline_pc = "s05"
    /\ pipeline_index = Len(s04_instructions_effect_functions)
    /\ pipeline_index' = 0
    /\ pipeline_pc' = "s06"
    /\ UNCHANGED <<s03_instructions_decode_functions, s04_instructions_effect_functions, exceptions,
                   s05_instructions_graph_functions, s06_functions_effect_functions, functions_,
                   pipeline_error, pipeline_error_functions>>
    /\ UNCHANGED pipeline_others

\* s06 parse, one function of the list comprehension: its stack growth is resolved
S06ParseFunction ==
    /\ pipeline_pc = "s06"
    /\ pipeline_index < Len(s05_instructions_graph_functions)
    /\ LET parent_function == PipelineFunction(s05_instructions_graph_functions)
       IN  /\ FunctionStackGrowError(parent_function.instructions) = ""
           /\ s06_functions_effect_functions' =
                  Append(s06_functions_effect_functions,
                         [address |-> parent_function.address,
                          stack_grow |-> EntryWalk(parent_function.instructions, 0, 0, {}).stack_grow,
                          call_addresses |-> FunctionCallAddresses(parent_function.instructions)])
    /\ pipeline_index' = pipeline_index + 1
    /\ UNCHANGED <<s03_instructions_decode_functions, s04_instructions_effect_functions, exceptions,
                   s05_instructions_graph_functions, functions_, pipeline_error,
                   pipeline_error_functions, pipeline_pc>>
    /\ UNCHANGED pipeline_others

\* s06 parse, one function of the list comprehension: resolve_function_stack_grow
\* raises, which leaves the comprehension and parse
S06ParseFunctionRaise ==
    /\ pipeline_pc = "s06"
    /\ pipeline_index < Len(s05_instructions_graph_functions)
    /\ LET parent_function == PipelineFunction(s05_instructions_graph_functions)
       IN  /\ FunctionStackGrowError(parent_function.instructions) /= ""
           /\ pipeline_error' = FunctionStackGrowError(parent_function.instructions)
           /\ pipeline_error_functions' = <<parent_function.address>>
    /\ pipeline_pc' = "raised"
    /\ UNCHANGED <<s03_instructions_decode_functions, s04_instructions_effect_functions, exceptions,
                   s05_instructions_graph_functions, s06_functions_effect_functions, functions_,
                   pipeline_index>>
    /\ UNCHANGED pipeline_others

\* s06 parse returns; functions/parse.py rebuilds the functions and program
\* parse_functions hands them to the cumulative solver
S06ParseReturn ==
    /\ pipeline_pc = "s06"
    /\ pipeline_index = Len(s05_instructions_graph_functions)
    /\ parent_functions' = s06_functions_effect_functions
    /\ solver_pc' = "while"
    /\ pipeline_pc' = "parse_functions"
    /\ UNCHANGED <<stack_grow_cumulative_by_function_address, functions_unresolved, changed, passes,
                   function_addresses_unresolved>>
    /\ UNCHANGED <<s03_instructions_decode_functions, s04_instructions_effect_functions, exceptions,
                   s05_instructions_graph_functions, s06_functions_effect_functions, functions_,
                   pipeline_index, pipeline_error, pipeline_error_functions>>
    /\ UNCHANGED pipeline_solver_others

\* the assertions of program Function.__post_init__ on the stack growths
ProgramFunctionAsserted(function) ==
    /\ function.stack_grow >= 0
    /\ function.stack_grow % 4 = 0
    /\ function.stack_grow_cumulative >= function.stack_grow
    /\ function.stack_grow_cumulative % 4 = 0

\* a slip of ProgramFunctions: the own and the cumulative stack growth exchanged
ProgramFunctionsExchanged(parent_functions_, cumulative) ==
    [i \in DOMAIN parent_functions_ |->
        [address |-> parent_functions_[i].address,
         stack_grow |-> cumulative[parent_functions_[i].address],
         stack_grow_cumulative |-> parent_functions_[i].stack_grow,
         call_addresses |-> parent_functions_[i].call_addresses]]

\* "functions_ = [Function(..., stack_grow_cumulative=...[parent_function.address], ...) ...]"
ProgramFunctions(parent_functions_, cumulative) ==
    [i \in DOMAIN parent_functions_ |->
        [address |-> parent_functions_[i].address,
         stack_grow |-> parent_functions_[i].stack_grow,
         stack_grow_cumulative |-> cumulative[parent_functions_[i].address],
         call_addresses |-> parent_functions_[i].call_addresses]]

\* program parse_functions, the solver having returned: the Functions are built, an
\* assertion of Function.__post_init__ that fails ends the analysis
ParseFunctionsReturn ==
    /\ pipeline_pc = "parse_functions"
    /\ solver_pc = "returned"
    /\ LET built == ProgramFunctions(parent_functions, stack_grow_cumulative_by_function_address)
       IN  IF \A i \in DOMAIN built : ProgramFunctionAsserted(built[i])
           THEN /\ functions_' = built
                /\ pipeline_pc' = "returned"
                /\ UNCHANGED pipeline_error
           ELSE /\ pipeline_error' = "AssertionError"
                /\ pipeline_pc' = "raised"
                /\ UNCHANGED functions_
    /\ UNCHANGED <<s03_instructions_decode_functions, s04_instructions_effect_functions, exceptions,
                   s05_instructions_graph_functions, s06_functions_effect_functions,
                   pipeline_index, pipeline_error_functions>>
    /\ UNCHANGED pipeline_others

\* program parse_functions, the solver having raised the cycle ValueError
ParseFunctionsRaise ==
    /\ pipeline_pc = "parse_functions"
    /\ solver_pc = "raised"
    /\ pipeline_error' = "Unable to resolve functions cumulative stack usage"
    /\ pipeline_error_functions' = <<>>
    /\ pipeline_pc' = "raised"
    /\ UNCHANGED <<s03_instructions_decode_functions, s04_instructions_effect_functions, exceptions,
                   s05_instructions_graph_functions, s06_functions_effect_functions, functions_,
                   pipeline_index>>
    /\ UNCHANGED pipeline_others

PipelineNext ==
    \/ S04ParseFunction
    \/ S04ParseFunctionExcept
    \/ S04ParseFunctionRaise
    \/ S04ParseRaise
    \/ S04ParseReturn
    \/ S05ParseFunction
    \/ S05ParseFunctionRaise
    \/ S05ParseReturn
    \/ S06ParseFunction
    \/ S06ParseFunctionRaise
    \/ S06ParseReturn
    \/ SolverPassBegin
    \/ SolverTryFunction
    \/ SolverPassEnd
    \/ SolverFinish
    \/ ParseFunctionsReturn
    \/ ParseFunctionsRaise

SpecPipeline == PipelineInit /\ [][PipelineNext]_vars

(***************************************************************************)
(* Properties of the pipeline                                              *)
(***************************************************************************)

\* the function at `address` in a functions list
FunctionAt(functions, address) ==
    functions[CHOOSE i \in DOMAIN functions : functions[i].address = address]

\* the instruction at `function_offset` in an instructions list
InstructionAt(instructions, function_offset) ==
    instructions[CHOOSE i \in DOMAIN instructions :
                    instructions[i].function_offset = function_offset]

\* the program of main = PUSH {LR}; BL panic; padding, panic = B panic, next to a
\* function that is a single BX LR
S4Program ==
    InputProgramFunctions(3,
        <<<<ResolvedEffects("EffectReturn", FALSE, {}, 0)>>,
          <<ResolvedEffects("EffectBranch", FALSE, {0}, 0)>>,
          <<ResolvedEffects("None", FALSE, {}, -4),
            ResolvedEffects("EffectCall", FALSE, {102}, 0),
            ResolvedEffects("None", FALSE, {}, 0)>>>>)

\* C11: in every instruction graph built, a call instruction has the successor set
\* {return offset} when one of its callees has a return instruction and the empty set
\* when none has, and its callees are its call_addresses either way; main = PUSH {LR};
\* BL panic; padding with panic = B panic is analyzed without cycle error, the padding
\* left out, main with stack_grow 4, cumulative 4 and call set {panic}, panic with 0 and 0.
C11_CallSuccessorsByCalleeReturns ==
    /\ \A i \in DOMAIN s05_instructions_graph_functions :
        LET function == s05_instructions_graph_functions[i]
            parent_function == FunctionAt(s04_instructions_effect_functions, function.address)
        IN  \A k \in DOMAIN function.instructions :
                LET instruction == function.instructions[k]
                    effect == InstructionAt(parent_function.instructions,
                                            instruction.function_offset).program_counter_effect
                IN  effect.type = "Call" =>
                        /\ instruction.call_addresses = effect.addresses
                        /\ ~instruction.function_offsets_next_none
                        /\ instruction.function_offsets_next =
                              IF \E address \in effect.addresses :
                                    S04FunctionReturns(
                                        FunctionAt(s04_instructions_effect_functions,
                                                   address).instructions)
                              THEN {effect.return_function_offset}
                              ELSE {}
    /\ s03_instructions_decode_functions = S4Program =>
        /\ pipeline_pc /= "raised"
        /\ solver_pc /= "raised"
        /\ pipeline_pc = "returned" =>
              /\ {instruction.function_offset : instruction \in
                    {s05_instructions_graph_functions[3].instructions[k] :
                        k \in DOMAIN s05_instructions_graph_functions[3].instructions}} = {0, 2}
              /\ functions_[3] = [address |-> 104, stack_grow |-> 4,
                                  stack_grow_cumulative |-> 4, call_addresses |-> {102}]
              /\ functions_[2] = [address |-> 102, stack_grow |-> 0,
                                  stack_grow_cumulative |-> 0, call_addresses |-> {}]

\* the program of main and panic analyzed to the end
C11_Witness ==
    /\ s03_instructions_decode_functions = S4Program
    /\ pipeline_pc = "returned"
    /\ functions_[3].stack_grow_cumulative = 4
    /\ Len(s05_instructions_graph_functions[3].instructions) = 2

\* the functions of a stage's input, as addresses
RangeOf(sequence) == {sequence[i] : i \in DOMAIN sequence}

\* the functions of the s04 input whose effect resolution fails
S04FunctionsFailing ==
    {function.address : function \in
        {function \in RangeOf(s03_instructions_decode_functions) :
            \/ S04ParseFunctionInstructionsExcepts(function.resolved)
            \/ FlowFunctionOffsetsInvalid(InputFunctionInstructions(Len(function.resolved),
                                                                    function.resolved))}}

\* the functions of the s05 input whose instruction graph is rejected
S05FunctionsFailing ==
    {function.address : function \in
        {function \in RangeOf(s04_instructions_effect_functions) :
            S05ParseFunctionInstructions(function.instructions).error /= ""}}

\* the functions of the s06 input whose stack analysis is rejected
S06FunctionsFailing ==
    {function.address : function \in
        {function \in RangeOf(s05_instructions_graph_functions) :
            FunctionStackGrowError(function.instructions) /= ""}}

\* the errors raised for one function by s04, by s05 and by s06
S04FunctionErrors ==
    {"Exceptions encountered while parsing functions",
     "Found instruction flow / branch (not call) reaching instruction out of function boundaries"}

S05FunctionErrors == {"falls out of function boundary"}

S06FunctionErrors ==
    {"AssertionError",
     "Different return paths results in differing stack sizes",
     "Function stack size is not returned to zero",
     "Unable to reach all instructions affecting stack",
     "Function stack usage is not aligned to word boundary"}

\* the stage whose per-function analysis ended the analysis
StageRaised(stage_errors) ==
    /\ pipeline_pc = "raised"
    /\ pipeline_error \in stage_errors
    /\ pipeline_error_functions /= <<>>

\* C13: per-function errors are batched: when a stage (effect resolution, instruction
\* graph, stack analysis) ends the analysis, the reported failure has an entry for every
\* function of that stage's input that fails the stage, not only for the first one.
C13_PerFunctionErrorsBatched ==
    /\ StageRaised(S04FunctionErrors)
           => S04FunctionsFailing \subseteq RangeOf(pipeline_error_functions)
    /\ StageRaised(S05FunctionErrors)
           => S05FunctionsFailing \subseteq RangeOf(pipeline_error_functions)
    /\ StageRaised(S06FunctionErrors)
           => S06FunctionsFailing \subseteq RangeOf(pipeline_error_functions)

\* two functions rejected by the instruction-graph stage, one of them reported
C13_FirstFailureOnly ==
    /\ StageRaised(S05FunctionErrors)
    /\ S05FunctionsFailing = {100, 102}
    /\ pipeline_error_functions = <<100>>

\* C18: every function of a built program has stack_grow_cumulative >= stack_grow >= 0,
\* both multiples of 4: the assertions of the program Function never fail on what the
\* stack analyzer and the solver give.
C18_StackGrowsOrderedAndAligned ==
    /\ ~(pipeline_pc = "raised" /\ solver_pc = "returned" /\ pipeline_error = "AssertionError")
    /\ pipeline_pc = "returned" =>
           /\ Len(functions_) = Len(s06_functions_effect_functions)
           /\ \A i \in DOMAIN functions_ :
                  /\ functions_[i].stack_grow = s06_functions_effect_functions[i].stack_grow
                  /\ functions_[i].stack_grow_cumulative
                         = stack_grow_cumulative_by_function_address[functions_[i].address]
                  /\ functions_[i].stack_grow_cumulative >= functions_[i].stack_grow
                  /\ functions_[i].stack_grow >= 0
                  /\ functions_[i].stack_grow % 4 = 0
                  /\ functions_[i].stack_grow_cumulative % 4 = 0

\* PUSH {LR}; BL f; POP {PC} calling PUSH {R4, LR}; MOVS; POP {R4, PC}: 4 and 12
C18_Witness ==
    /\ pipeline_pc = "returned"
    /\ \E i \in DOMAIN functions_ :
           /\ functions_[i].stack_grow = 4
           /\ functions_[i].stack_grow_cumulative = 12
           /\ functions_[i].call_addresses = {100}


\* the addresses of the functions whose instruction graph is built
S05Addresses == AddressesOf(s05_instructions_graph_functions)

\* the instruction graph of the function at `address` has a return instruction: one
\* that is reachable from offset 0, the graph holding the reachable instructions only
S05FunctionReturns(address) ==
    \E k \in DOMAIN FunctionAt(s05_instructions_graph_functions, address).instructions :
        FunctionAt(s05_instructions_graph_functions, address).instructions[k]
            .function_offsets_next_none

\* C23: a callee is treated as returning at a call site, the call flowing to its return
\* offset, if and only if the callee's own instruction graph has a return instruction,
\* that is one reachable from its offset 0.
C23_ReturnsFlagAgreesWithGraph ==
    \A i \in DOMAIN s05_instructions_graph_functions :
        \A k \in DOMAIN s05_instructions_graph_functions[i].instructions :
            LET instruction == s05_instructions_graph_functions[i].instructions[k]
            IN  (instruction.call_addresses /= {} /\ instruction.call_addresses \subseteq S05Addresses)
                    => (instruction.function_offsets_next /= {}
                            <=> \E address \in instruction.call_addresses :
                                    S05FunctionReturns(address))

\* f = B .; BX LR and a caller BL f; PUSH {LR}; UDF: the call flows to the PUSH although
\* the graph of f has no return
C23_DeadReturnTreatedAsReturning ==
    /\ Len(s05_instructions_graph_functions) = 2
    /\ ~S05FunctionReturns(100)
    /\ S04FunctionReturns(FunctionAt(s04_instructions_effect_functions, 100).instructions)
    /\ \E k \in DOMAIN s05_instructions_graph_functions[2].instructions :
          /\ s05_instructions_graph_functions[2].instructions[k].call_addresses = {100}
          /\ s05_instructions_graph_functions[2].instructions[k].function_offsets_next = {2}

\* the decoded function an s04 or s05 function was parsed from
DecodedFunctionAt(address) ==
    s03_instructions_decode_functions[
        CHOOSE k \in DOMAIN s03_instructions_decode_functions :
            s03_instructions_decode_functions[k].address = address]

\* offset of the instruction after the i-th of n two-byte instructions, None past the last
NextOffsetOrNone(i, n) == IF i < n THEN 2 * i ELSE None

\* the successors the s04 instruction `parsed` carries are the ones due to what the
\* resolvers gave for it, `resolved`, `next` being the fall-through offset or None
SuccessorsAsResolved(resolved, parsed, next) ==
    LET effect == parsed.program_counter_effect
    IN  /\ (resolved.pc = "EffectBranch" /\ resolved.conditional) =>
               effect.type = "Flow" /\ effect.function_offsets = resolved.targets \cup {next}
        /\ (resolved.pc = "EffectBranch" /\ ~resolved.conditional) =>
               effect.type = "Flow" /\ effect.function_offsets = resolved.targets
        /\ resolved.pc = "None" =>
               effect.type = "Flow" /\ effect.function_offsets = {next}
        /\ resolved.pc = "EffectInvalid" =>
               effect.type = "Flow" /\ effect.function_offsets = {}
        /\ resolved.pc = "EffectReturn" => effect.type = "Return"

\* the successors of the s05 instruction `graphed` are the set of the s04 instruction
\* `parsed` when that one flows, and the sentinel None exactly when it returns
SuccessorsKept(parsed, graphed) ==
    LET effect == parsed.program_counter_effect
    IN  /\ graphed.function_offsets_next_none <=> effect.type = "Return"
        /\ effect.type = "Flow" => graphed.function_offsets_next = effect.function_offsets

\* C27: a conditional branch gets its targets and the fall-through offset (None when no
\* instruction follows), an unconditional branch, a jump table included, exactly its
\* targets, an instruction without program-counter effect exactly the next offset or
\* None, UDF the empty set, and a return no set but the sentinel, which the empty set
\* of UDF is not.
C27_SuccessorsPerInstruction ==
    /\ \A k \in DOMAIN s04_instructions_effect_functions :
          LET function == s04_instructions_effect_functions[k]
              resolved == DecodedFunctionAt(function.address).resolved
          IN  /\ Len(function.instructions) = Len(resolved)
              /\ \A i \in DOMAIN resolved :
                    /\ function.instructions[i].function_offset = 2 * (i - 1)
                    /\ SuccessorsAsResolved(resolved[i], function.instructions[i],
                                            NextOffsetOrNone(i, Len(resolved)))
    /\ \A k \in DOMAIN s05_instructions_graph_functions :
          LET function == s05_instructions_graph_functions[k]
              parent_function == s04_instructions_effect_functions[k]
          IN  /\ parent_function.address = function.address
              /\ \A i \in DOMAIN function.instructions :
                    SuccessorsKept(
                        parent_function.instructions[function.instructions[i].function_offset \div 2 + 1],
                        function.instructions[i])

\* some s04 function has an instruction of this resolver result with these successors
S04HasFlow(pc, conditional, function_offsets) ==
    \E k \in DOMAIN s04_instructions_effect_functions :
        LET function == s04_instructions_effect_functions[k]
            resolved == DecodedFunctionAt(function.address).resolved
        IN  \E i \in DOMAIN resolved :
                /\ resolved[i].pc = pc
                /\ resolved[i].conditional = conditional
                /\ function.instructions[i].program_counter_effect.type = "Flow"
                /\ function.instructions[i].program_counter_effect.function_offsets = function_offsets

\* one program with a B<cond> over a BX LR ({4, 2}), a last B<cond> . ({0, None}) and a
\* jump table ({2, 4}); the graph of the first holds the return with the sentinel
C27_Witness ==
    /\ S04HasFlow("EffectBranch", TRUE, {2, 4})
    /\ S04HasFlow("EffectBranch", TRUE, {0, None})
    /\ S04HasFlow("EffectBranch", FALSE, {2, 4})
    /\ \E k \in DOMAIN s05_instructions_graph_functions :
          \E i \in DOMAIN s05_instructions_graph_functions[k].instructions :
              /\ s05_instructions_graph_functions[k].instructions[i].function_offsets_next_none
              /\ s05_instructions_graph_functions[k].instructions[i].function_offsets_next = {}

\* BL f; PUSH {LR}; UDF gets through the graph builder: the UDF has the empty set, not
\* the sentinel
C27_WitnessUdf ==
    \E k \in DOMAIN s05_instructions_graph_functions :
        \E i \in DOMAIN s05_instructions_graph_functions[k].instructions :
            /\ Len(DecodedFunctionAt(s05_instructions_graph_functions[k].address).resolved) = 3
            /\ DecodedFunctionAt(s05_instructions_graph_functions[k].address).resolved[3].pc = "EffectInvalid"
            /\ s05_instructions_graph_functions[k].instructions[i].function_offset = 4
            /\ ~s05_instructions_graph_functions[k].instructions[i].function_offsets_next_none
            /\ s05_instructions_graph_functions[k].instructions[i].function_offsets_next = {}

(***************************************************************************)
(* BLX Rm resolver: literal load and call overrides                        *)
(***************************************************************************)

\* largest number of instructions before the BLX in an input function
MaxBlxPreceding == 2

\* an instruction of the function: LDR Rt, [PC, #imm], an instruction writing Rt, an
\* instruction writing no register, BLX Rm
Instruction(kind, register, imm) == [kind |-> kind, register |-> register, imm |-> imm]

\* the instructions that may precede the BLX R3
InputBlxPreceding ==
    {Instruction("LdrLiteral", 3, imm) : imm \in {0, 1}}
    \cup {Instruction("LdrLiteral", 2, 0), Instruction("MovRegister", 3, 0),
          Instruction("Nop", None, 0)}

\* the half-words a data region is made of
InputDataHalfwords == {0, 256, 257}

\* the data regions that may follow the code: up to three half-words
InputBlxData == UNION {[1..n -> InputDataHalfwords] : n \in 0..3}

\* the call overrides of the configuration for the BLX at `address`: none, or target sets
InputCallOverrides(address) ==
    {<<>>} \cup {(address :> targets) : targets \in {{256}, {512}, {256, 512}}}

\* Instruction.affects_registers()
AffectsRegisters(instruction) ==
    IF instruction.kind \in {"LdrLiteral", "MovRegister"} THEN {instruction.register} ELSE {}

\* CursorFunctionRegionInstructions.function_offset() of the index-th instruction
CursorFunctionOffset(index) == 2 * (index - 1)

\* CursorFunctionRegionInstructions.address()
CursorAddress(cursor) == cursor.function_address + CursorFunctionOffset(cursor.index)

\* the walk back from the BLX: the index of the nearest instruction before it that
\* affects Rm, 0 when the beginning of the function is reached
CursorModifying(cursor) ==
    LET m == cursor.instructions[cursor.index].register
        modifying == {j \in 1..(cursor.index - 1) : m \in AffectsRegisters(cursor.instructions[j])}
    IN  IF modifying = {} THEN 0 ELSE CHOOSE j \in modifying : \A k \in modifying : k <= j

\* the function offset at which the data region starts, the function being one
\* code region followed, when there is data, by one data region
DataRegionFunctionOffset(cursor) == 2 * Len(cursor.instructions)

\* CursorFunction.region_data: the offset in the data region, None when the function
\* offset is in no data region
RegionData(cursor, function_offset) ==
    IF /\ Len(cursor.data) > 0
       /\ function_offset >= DataRegionFunctionOffset(cursor)
       /\ function_offset < DataRegionFunctionOffset(cursor) + 2 * Len(cursor.data)
    THEN function_offset - DataRegionFunctionOffset(cursor)
    ELSE None

\* CursorFunctionRegionData.read_word_unsigned: the ValueError it raises, "" when none
ReadWordUnsignedError(cursor, function_region_data_offset) ==
    IF (cursor.function_address + DataRegionFunctionOffset(cursor)
            + function_region_data_offset) % 4 /= 0
    THEN "Attempted unaligned 4 bytes access"
    ELSE IF function_region_data_offset + 4 > 2 * Len(cursor.data)
    THEN "Overflow for 4 bytes access"
    ELSE ""

\* a slip of ReadWordUnsigned: the half-words of the word taken in the other order
ReadWordUnsignedSwapped(cursor, function_region_data_offset) ==
    cursor.data[(function_region_data_offset \div 2) + 2]
        + 65536 * cursor.data[(function_region_data_offset \div 2) + 1]

\* CursorFunctionRegionData.read_word_unsigned: the little-endian word
ReadWordUnsigned(cursor, function_region_data_offset) ==
    cursor.data[(function_region_data_offset \div 2) + 1]
        + 65536 * cursor.data[(function_region_data_offset \div 2) + 2]

\* what a resolver gives: an EffectCall, None, or an exception
Resolved(outcome, target_addresses) == [outcome |-> outcome, target_addresses |-> target_addresses]

\* a slip of ThumbBitSet: the bit is not looked at
ThumbBitSetAlways(target_address) == TRUE

\* "target_address & 1 != 1" does not hold
ThumbBitSet(target_address) == target_address % 2 = 1

\* resolve_blx_register_t1_pc_relative_load
ResolveBlxRegisterT1PcRelativeLoad(cursor) ==
    LET modifying == CursorModifying(cursor)
        instructions_modifying == cursor.instructions[modifying]
        data_function_offset == CursorFunctionOffset(modifying) + 4 + instructions_modifying.imm * 4
        data_target == RegionData(cursor, data_function_offset)
        target_address == ReadWordUnsigned(cursor, data_target)
    IN  IF modifying = 0 THEN Resolved("None", {})
        ELSE IF instructions_modifying.kind /= "LdrLiteral" THEN Resolved("None", {})
        ELSE IF data_target = None THEN Resolved("None", {})
        ELSE IF ReadWordUnsignedError(cursor, data_target) /= ""
        THEN Resolved(ReadWordUnsignedError(cursor, data_target), {})
        ELSE IF ~ThumbBitSet(target_address)
        THEN Resolved("Thumb bit not set for immediate", {})
        ELSE Resolved("EffectCall", {target_address - (target_address % 2)})

\* resolve_call_config
ResolveCallConfig(overrides, cursor) ==
    IF CursorAddress(cursor) \in DOMAIN overrides
    THEN Resolved("EffectCall", overrides[CursorAddress(cursor)])
    ELSE Resolved("None", {})

\* "effects_call = {effect_call for effect_call in (resolver(...) for resolver in RESOLVERS)
\* if effect_call is not None}", as the set of the target sets
EffectsCall(overrides, cursor) ==
    {resolved.target_addresses : resolved \in
        {r \in {ResolveBlxRegisterT1PcRelativeLoad(cursor), ResolveCallConfig(overrides, cursor)} :
            r.outcome = "EffectCall"}}

\* resolve_blx_register_t1: what it raises, "" when it returns; an exception of the
\* first resolver leaves before the second one is tried
ResolveBlxRegisterT1Error(overrides, cursor) ==
    CASE ResolveBlxRegisterT1PcRelativeLoad(cursor).outcome \notin {"None", "EffectCall"} ->
            ResolveBlxRegisterT1PcRelativeLoad(cursor).outcome
      [] OTHER ->
            CASE Cardinality(EffectsCall(overrides, cursor)) = 0 ->
                    "ResolveBlxRegisterT1UnknownException"
              [] Cardinality(EffectsCall(overrides, cursor)) = 1 -> ""
              [] OTHER -> "AssertionError"

BlxInit ==
    /\ RegionsIdle
    /\ SpIdle
    /\ DecoderIdle
    /\ TableIdle
    /\ OrderIdle
    /\ SolverIdle
    /\ EntrypointsIdle
    /\ FunctionIdle
    /\ PipelineIdle
    /\ \E function_address \in {256, 258}, n \in 0..MaxBlxPreceding, following \in 0..1 :
        \E preceding \in [1..n -> InputBlxPreceding], data \in InputBlxData :
            /\ cursor_function_region_instructions =
                  [function_address |-> function_address,
                   instructions |-> preceding \o <<Instruction("BlxRegister", 3, 0)>>
                                       \o [i \in 1..following |-> Instruction("Nop", None, 0)],
                   data |-> data,
                   index |-> n + 1]
            /\ config_call_overrides \in InputCallOverrides(function_address + 2 * n)
    /\ effects_call = {}
    /\ effect_call = {}
    /\ blx_error = ""
    /\ blx_pc = "resolve_blx_register_t1"

\* resolve_blx_register_t1 returns the one effect
ResolveBlxRegisterT1Return ==
    /\ blx_pc = "resolve_blx_register_t1"
    /\ ResolveBlxRegisterT1Error(config_call_overrides, cursor_function_region_instructions) = ""
    /\ effects_call' = EffectsCall(config_call_overrides, cursor_function_region_instructions)
    /\ effect_call' = CHOOSE targets \in effects_call' : TRUE
    /\ blx_pc' = "returned"
    /\ UNCHANGED <<cursor_function_region_instructions, config_call_overrides, blx_error>>
    /\ UNCHANGED blx_others

\* resolve_blx_register_t1 raises: a resolver's ValueError, the unknown-target
\* exception, or the failed "assert False"
ResolveBlxRegisterT1Raise ==
    /\ blx_pc = "resolve_blx_register_t1"
    /\ ResolveBlxRegisterT1Error(config_call_overrides, cursor_function_region_instructions) /= ""
    /\ blx_error' = ResolveBlxRegisterT1Error(config_call_overrides, cursor_function_region_instructions)
    /\ effects_call' =
          IF ResolveBlxRegisterT1PcRelativeLoad(cursor_function_region_instructions).outcome
                \in {"None", "EffectCall"}
          THEN EffectsCall(config_call_overrides, cursor_function_region_instructions)
          ELSE {}
    /\ blx_pc' = "raised"
    /\ UNCHANGED <<cursor_function_region_instructions, config_call_overrides, effect_call>>
    /\ UNCHANGED blx_others

BlxNext ==
    \/ ResolveBlxRegisterT1Return
    \/ ResolveBlxRegisterT1Raise

SpecBlx == BlxInit /\ [][BlxNext]_vars

(***************************************************************************)
(* Properties of the BLX Rm resolver                                       *)
(***************************************************************************)

\* resolve_blx_register_t1 has returned or raised
BlxResolved == blx_pc \in {"returned", "raised"}

\* what the literal-load resolver gives for the input
StaticResolved == ResolveBlxRegisterT1PcRelativeLoad(cursor_function_region_instructions)

\* the configuration has call targets for the address of the BLX
OverridePresent ==
    CursorAddress(cursor_function_region_instructions) \in DOMAIN config_call_overrides

\* C12: when the literal-load resolver gives target set A and the configuration has the
\* non-empty target set T for the address of the BLX, resolve_blx_register_t1 returns
\* the Call with target set A \cup T.
C12_BothResolversUnion ==
    (BlxResolved /\ StaticResolved.outcome = "EffectCall" /\ OverridePresent) =>
        /\ blx_pc = "returned"
        /\ effect_call = StaticResolved.target_addresses
              \cup config_call_overrides[CursorAddress(cursor_function_region_instructions)]


\* the index of the nearest instruction before the BLX that writes Rm, 0 when none does
NearestWriterIndex ==
    LET cursor == cursor_function_region_instructions
        Writes(j) == /\ cursor.instructions[j].kind \in {"LdrLiteral", "MovRegister"}
                     /\ cursor.instructions[j].register
                            = cursor.instructions[cursor.index].register
    IN  CHOOSE j \in 0..(cursor.index - 1) :
            /\ j = 0 \/ Writes(j)
            /\ \A k \in (j + 1)..(cursor.index - 1) : ~Writes(k)

\* the nearest preceding writer of Rm is an LDR (literal)
NearestWriterIsLdrLiteral ==
    /\ NearestWriterIndex /= 0
    /\ cursor_function_region_instructions.instructions[NearestWriterIndex].kind = "LdrLiteral"

\* the address the LDR (literal) loads from, and the address the data region starts at
LiteralAddress ==
    LET cursor == cursor_function_region_instructions
    IN  cursor.function_address + 2 * (NearestWriterIndex - 1) + 4
            + 4 * cursor.instructions[NearestWriterIndex].imm

DataRegionAddress ==
    cursor_function_region_instructions.function_address
        + 2 * Len(cursor_function_region_instructions.instructions)

\* the four bytes at LiteralAddress are an aligned word of the data region
LiteralWordReadable ==
    /\ LiteralAddress % 4 = 0
    /\ LiteralAddress >= DataRegionAddress
    /\ LiteralAddress + 4
           <= DataRegionAddress + 2 * Len(cursor_function_region_instructions.data)

\* bit 0 of the little-endian word at LiteralAddress: bit 0 of its first half-word
LiteralWordBit0 ==
    cursor_function_region_instructions.data[(LiteralAddress - DataRegionAddress) \div 2 + 1] % 2

LiteralWordComplete ==
    /\ LiteralAddress >= DataRegionAddress
    /\ LiteralAddress + 4
           <= DataRegionAddress + 2 * Len(cursor_function_region_instructions.data)

\* the little-endian word at LiteralAddress
LiteralWord ==
    LET k == (LiteralAddress - DataRegionAddress) \div 2
    IN  cursor_function_region_instructions.data[k + 1]
            + 65536 * cursor_function_region_instructions.data[k + 2]

\* the literal-load resolver gave the Call with the target set `targets`
StaticCallEmitted(targets) == BlxResolved /\ targets \in effects_call

C24_UnalignedRejected ==
    /\ blx_pc = "raised"
    /\ blx_error = "Attempted unaligned 4 bytes access"
    /\ NearestWriterIsLdrLiteral /\ LiteralWordComplete /\ LiteralWord % 2 = 1
    /\ cursor_function_region_instructions.function_address = 256
    /\ NearestWriterIndex = 2

(***************************************************************************)
(* Pipeline with the orders left open: the worklist of s05 pops any queued *)
(* offset, a solver pass scans the unresolved functions in any order       *)
(***************************************************************************)

\* what the worklist pipeline leaves alone
pipeline_order_others == <<solver_vars, entrypoints_vars, function_vars, blx_vars, table_vars, decoder_vars, sp_vars, regions_vars>>

\* function bodies of the input programs: the straight ones, forks that join or
\* return twice, forks one branch of which falls out or leaves the stack unbalanced
InputOrderFunctionBodies ==
    LET Ordinary(add) == ResolvedEffects("None", FALSE, {}, add)
        Return(add) == ResolvedEffects("EffectReturn", FALSE, {}, add)
        Call(targets) == ResolvedEffects("EffectCall", FALSE, targets, 0)
        Branch(conditional, targets) == ResolvedEffects("EffectBranch", conditional, targets, 0)
    IN  {<<Return(0)>>,                                       \* BX LR
         <<Branch(FALSE, {0})>>,                              \* B .
         <<Ordinary(-4), Call({100}), Return(4)>>,            \* PUSH {LR}; BL f; POP {PC}
         <<Call({102}), Return(0)>>,                          \* BL panic; BX LR
         <<Call({100, 102}), Return(0)>>,                     \* BLX Rm with two targets; BX LR
         <<Branch(TRUE, {4}), Return(0), Return(0)>>,         \* B<cond> to one of two BX LR
         <<Branch(FALSE, {2, 4}), Return(0), Branch(FALSE, {2})>>, \* ADD PC, Rm; BX LR; B to it
         <<Branch(TRUE, {4}), Call({100}), Return(0)>>,       \* B<cond> over a BL f to BX LR
         <<Branch(TRUE, {4}), Return(0), Ordinary(0)>>,       \* B<cond> over BX LR to a MOVS that falls out
         <<Branch(TRUE, {4}), Ordinary(0), Ordinary(0)>>,     \* both branches fall out
         <<Branch(TRUE, {4}), Return(0), Ordinary(-4)>>,      \* one branch pushes and falls out
         <<Ordinary(-4), Return(0)>>}                         \* PUSH {LR}; BX LR

\* the s04 Functions of an input program
InputS04Functions(decoded) ==
    [i \in DOMAIN decoded |->
        [address |-> decoded[i].address,
         instructions |-> InputFunctionInstructions(Len(decoded[i].resolved),
                                                    decoded[i].resolved)]]

\* functions.by_address[address]
FunctionAtAddress(functions, address) ==
    functions[CHOOSE i \in DOMAIN functions : functions[i].address = address]

\* the permutations of a list
Permutations_(sequence) ==
    {permuted \in [DOMAIN sequence -> {sequence[i] : i \in DOMAIN sequence}] :
        \A i, j \in DOMAIN sequence : permuted[i] = permuted[j] => i = j}

\* s04 parse has returned the Functions of an input program, s05 parse starts
OrderInit ==
    /\ RegionsIdle
    /\ SpIdle
    /\ DecoderIdle
    /\ TableIdle
    /\ BlxIdle
    /\ SolverIdle
    /\ EntrypointsIdle
    /\ FunctionIdle
    /\ \E n \in 1..MaxProgramFunctions :
        \E bodies \in [1..n -> InputOrderFunctionBodies] :
            /\ \A i \in 1..n : InputFunctionReturnsAsCalled(ProgramFunctionAddress(i), bodies[i])
            /\ s03_instructions_decode_functions = InputProgramFunctions(n, bodies)
    /\ s04_instructions_effect_functions = InputS04Functions(s03_instructions_decode_functions)
    /\ \A i \in DOMAIN s04_instructions_effect_functions :
           ~FlowFunctionOffsetsInvalid(s04_instructions_effect_functions[i].instructions)
    /\ ~FunctionCallsMissing(s04_instructions_effect_functions)
    /\ ~FunctionCallsInvalidReturn(s04_instructions_effect_functions)
    /\ exceptions = <<>>
    /\ s05_instructions_graph_functions = <<>>
    /\ s06_functions_effect_functions = <<>>
    /\ functions_ = <<>>
    /\ pipeline_index = 0
    /\ pipeline_error = ""
    /\ pipeline_error_functions = <<>>
    /\ pipeline_pc = "s05"
    /\ function_offsets_queue = {}
    /\ function_offsets_closed = {}
    /\ worklist_function_instructions = <<>>
    /\ stack_size = 0

\* s05 parse_function_instructions, before the loop: "function_offsets_queue.add(0)"
WorklistBegin ==
    /\ pipeline_pc = "s05"
    /\ pipeline_index < Len(s04_instructions_effect_functions)
    /\ function_offsets_queue' = {0}
    /\ function_offsets_closed' = {}
    /\ worklist_function_instructions' = <<>>
    /\ pipeline_pc' = "s05_while"
    /\ UNCHANGED <<s03_instructions_decode_functions, s04_instructions_effect_functions, exceptions,
                   s05_instructions_graph_functions, s06_functions_effect_functions, functions_,
                   pipeline_index, pipeline_error, pipeline_error_functions, stack_size>>
    /\ UNCHANGED pipeline_order_others

\* one iteration of "while function_offsets_queue": set.pop() gives any queued offset,
\* its instruction is accepted, appended, and its open successors are queued
WorklistPop ==
    /\ pipeline_pc = "s05_while"
    /\ \E function_offset \in function_offsets_queue :
        LET parent_function_instruction ==
                ByFunctionOffset(PipelineFunction(s04_instructions_effect_functions).instructions,
                                 function_offset)
            function_instruction == S05ParseFunctionInstruction(parent_function_instruction)
        IN  /\ S05InstructionError(parent_function_instruction) = ""
            /\ function_offsets_closed' = function_offsets_closed \cup {function_offset}
            /\ worklist_function_instructions' =
                   Append(worklist_function_instructions, function_instruction)
            /\ function_offsets_queue' =
                   (function_offsets_queue \ {function_offset})
                   \cup (function_instruction.function_offsets_next \ function_offsets_closed')
    /\ UNCHANGED <<s03_instructions_decode_functions, s04_instructions_effect_functions, exceptions,
                   s05_instructions_graph_functions, s06_functions_effect_functions, functions_,
                   pipeline_index, pipeline_error, pipeline_error_functions, pipeline_pc,
                   stack_size>>
    /\ UNCHANGED pipeline_order_others

\* one iteration of "while function_offsets_queue": parse_function_instruction raises
\* ValueError for the offset popped, which leaves parse_function and parse
WorklistPopRaise ==
    /\ pipeline_pc = "s05_while"
    /\ \E function_offset \in function_offsets_queue :
        LET parent_function_instruction ==
                ByFunctionOffset(PipelineFunction(s04_instructions_effect_functions).instructions,
                                 function_offset)
        IN  /\ S05InstructionError(parent_function_instruction) /= ""
            /\ function_offsets_closed' = function_offsets_closed \cup {function_offset}
            /\ function_offsets_queue' = function_offsets_queue \ {function_offset}
            /\ pipeline_error' = S05InstructionError(parent_function_instruction)
    /\ pipeline_error_functions' =
           <<PipelineFunction(s04_instructions_effect_functions).address>>
    /\ pipeline_pc' = "raised"
    /\ UNCHANGED <<s03_instructions_decode_functions, s04_instructions_effect_functions, exceptions,
                   s05_instructions_graph_functions, s06_functions_effect_functions, functions_,
                   pipeline_index, worklist_function_instructions, stack_size>>
    /\ UNCHANGED pipeline_order_others

\* a slip of FunctionInstructionsSorted: the list is left in append order
FunctionInstructionsAsAppended(function_instructions_) == function_instructions_

\* "function_instructions.sort(key=...)" on the list of the worklist
FunctionInstructionsSorted(function_instructions_) ==
    SortedByFunctionOffset({function_instructions_[i] : i \in DOMAIN function_instructions_})

\* the queue is empty: the list is sorted, parse_function returns the Function and
\* the list comprehension of s05 parse takes the next function
WorklistEnd ==
    /\ pipeline_pc = "s05_while"
    /\ function_offsets_queue = {}
    /\ s05_instructions_graph_functions' =
           Append(s05_instructions_graph_functions,
                  [address |-> PipelineFunction(s04_instructions_effect_functions).address,
                   instructions |-> FunctionInstructionsSorted(worklist_function_instructions)])
    /\ pipeline_index' = pipeline_index + 1
    /\ pipeline_pc' = "s05"
    /\ UNCHANGED <<s03_instructions_decode_functions, s04_instructions_effect_functions, exceptions,
                   s06_functions_effect_functions, functions_, pipeline_error,
                   pipeline_error_functions>>
    /\ UNCHANGED order_vars
    /\ UNCHANGED pipeline_order_others

\* "while True: changed = False; functions_unresolved = [...]", the unresolved
\* functions scanned in any order
SolverPassBeginAnyOrder ==
    /\ solver_pc = "while"
    /\ changed' = FALSE
    /\ functions_unresolved' \in
           Permutations_(FunctionsUnresolved(stack_grow_cumulative_by_function_address))
    /\ passes' = passes + 1
    /\ solver_pc' = "for"
    /\ UNCHANGED <<parent_functions, stack_grow_cumulative_by_function_address,
                   function_addresses_unresolved>>
    /\ UNCHANGED solver_others

\* the vector table of the input programs: Reset and HardFault at the first function
OrderEntrypointsStackSize(functions) ==
    EntrypointStackGrow(FunctionAtAddress(functions, ProgramFunctionAddress(1)).stack_grow_cumulative,
                        FALSE)
    + EntrypointStackGrow(FunctionAtAddress(functions, ProgramFunctionAddress(1)).stack_grow_cumulative,
                          TRUE)

\* program parse after parse_functions: parse_entrypoints sums the priority groups
\* into Program.stack_size
ProgramParseReturn ==
    /\ pipeline_pc = "returned"
    /\ stack_size' = OrderEntrypointsStackSize(functions_)
    /\ pipeline_pc' = "program"
    /\ UNCHANGED <<s03_instructions_decode_functions, s04_instructions_effect_functions, exceptions,
                   s05_instructions_graph_functions, s06_functions_effect_functions, functions_,
                   pipeline_index, pipeline_error, pipeline_error_functions>>
    /\ UNCHANGED <<function_offsets_queue, function_offsets_closed, worklist_function_instructions>>
    /\ UNCHANGED pipeline_order_others

OrderNext ==
    \/ WorklistBegin
    \/ WorklistPop
    \/ WorklistPopRaise
    \/ WorklistEnd
    \/ S05ParseReturn
    \/ S06ParseFunction
    \/ S06ParseFunctionRaise
    \/ S06ParseReturn
    \/ SolverPassBeginAnyOrder
    \/ SolverTryFunction
    \/ SolverPassEnd
    \/ SolverFinish
    \/ ParseFunctionsReturn
    \/ ParseFunctionsRaise
    \/ ProgramParseReturn

SpecOrder == OrderInit /\ [][OrderNext]_vars

(***************************************************************************)
(* Properties of the pipeline with the orders left open                    *)
(***************************************************************************)

\* what the graph stage gives for the i-th function when the worklist pops the
\* smallest queued offset
RefGraph(i) == S05ParseFunctionInstructions(s04_instructions_effect_functions[i].instructions)

\* the graph stage rejects some function, the stack analyzer rejects some function
RefGraphRejects == \E i \in DOMAIN s04_instructions_effect_functions : RefGraph(i).error /= ""

RefStackRejects ==
    /\ ~RefGraphRejects
    /\ \E i \in DOMAIN s04_instructions_effect_functions :
           FunctionStackGrowError(RefGraph(i).instructions) /= ""

\* the offsets of the worklist's list, in append order
WorklistOffsets ==
    [i \in DOMAIN worklist_function_instructions |->
        worklist_function_instructions[i].function_offset]

\* C16: the outcome and the output do not depend on the order in which the worklist
\* pops queued offsets nor on the order in which a solver pass scans the unresolved
\* functions: whatever the orders, a graph is the one the smallest-first worklist builds,
\* the analysis is rejected exactly when that worklist, the stack analyzer or a call
\* cycle rejects it, and stack_grow, stack_grow_cumulative and stack_size are the
\* values the input determines.
C16_OutputIndependentOfOrders ==
    /\ \A i \in DOMAIN s05_instructions_graph_functions :
           /\ RefGraph(i).error = ""
           /\ s05_instructions_graph_functions[i].instructions = RefGraph(i).instructions
    /\ pipeline_pc = "raised" =>
           \/ pipeline_error \in S05FunctionErrors /\ RefGraph(pipeline_index + 1).error /= ""
           \/ pipeline_error \in S06FunctionErrors /\ RefStackRejects
           \/ /\ pipeline_error = "Unable to resolve functions cumulative stack usage"
              /\ ~RefGraphRejects /\ ~RefStackRejects /\ HasCallCycle
    /\ pipeline_pc \in {"returned", "program"} =>
           /\ ~RefGraphRejects /\ ~RefStackRejects /\ ~HasCallCycle
           /\ Len(functions_) = Len(s04_instructions_effect_functions)
           /\ \A i \in DOMAIN functions_ :
                  /\ functions_[i].address = s04_instructions_effect_functions[i].address
                  /\ functions_[i].stack_grow
                         = EntryWalk(RefGraph(i).instructions, 0, 0, {}).stack_grow
                  /\ functions_[i].call_addresses = FunctionCallAddresses(RefGraph(i).instructions)
                  /\ functions_[i].stack_grow_cumulative
                         = LongestPathStackGrow(functions_[i].address)
    /\ pipeline_pc = "program" =>
           stack_size = CeilToAlignment(LongestPathStackGrow(ProgramFunctionAddress(1)))
                        + CeilToAlignment(LongestPathStackGrow(ProgramFunctionAddress(1))
                                          + EXCEPTION_FRAME)

\* f calls panic and is listed before it, the third function forks to two returns: the
\* worklist took offset 4 before offset 2 and the solver scanned panic before f
C16_Witness ==
    /\ pipeline_pc = "program"
    /\ Len(functions_) = 3
    /\ functions_[1].call_addresses = {102}
    /\ passes = 2
    /\ WorklistOffsets = <<0, 4, 2>>
    /\ stack_size = 32

(***************************************************************************)
(* ADD PC, Rm resolver: the jump table in the data region after it         *)
(***************************************************************************)

\* largest number of bytes of an input data region
MaxTableBytes == 4

\* Register4.PC
PC == 15

\* an instruction of the function, all of two bytes: ADD Rdn, Rm (d, m), LSLS Rd, Rm,
\* #imm (d, m, imm), LDR/LDRH/LDRB Rt, [Rn, #imm] (t as d, n as m, imm, load_size), NOP
TableInstruction(kind, d, m, imm, load_size) ==
    [kind |-> kind, d |-> d, m |-> m, imm |-> imm, load_size |-> load_size]

TableNop == TableInstruction("Nop", None, None, 0, 0)

\* ADD Rn, PC; LDRx Rn, [Rn, #4]; LSLS Rn, Rn, #1; ADD PC, Rn with R2, for the three
\* load widths, and sequences that differ from it in one place
InputTablePatterns ==
    LET AddPc(d) == TableInstruction("AddRegisterT2", d, PC, 0, 0)
        Ldr(t, n, imm, load_size) == TableInstruction("LdrImmediate", t, n, imm, load_size)
        Lsls(d, m, imm) == TableInstruction("LslImmediateT1", d, m, imm, 0)
        AddToPc(m) == TableInstruction("AddRegisterT2", PC, m, 0, 0)
    IN  {<<AddPc(2), Ldr(2, 2, 4, 1), Lsls(2, 2, 1), AddToPc(2)>>,     \* LDRB R2, [R2, #4]
         <<AddPc(2), Ldr(2, 2, 2, 2), Lsls(2, 2, 1), AddToPc(2)>>,     \* LDRH R2, [R2, #4]
         <<AddPc(2), Ldr(2, 2, 1, 4), Lsls(2, 2, 1), AddToPc(2)>>,     \* LDR R2, [R2, #4]
         <<AddPc(2), Ldr(2, 2, 4, 1), Lsls(2, 2, 1), AddToPc(8)>>,     \* ADD PC, R8
         <<AddPc(2), Ldr(2, 2, 4, 1), Lsls(3, 2, 1), AddToPc(2)>>,     \* LSLS R3, R2, #1
         <<AddPc(2), Ldr(2, 2, 4, 1), Lsls(2, 3, 1), AddToPc(2)>>,     \* LSLS R2, R3, #1
         <<AddPc(2), Ldr(2, 2, 4, 1), Lsls(2, 2, 2), AddToPc(2)>>,     \* LSLS R2, R2, #2
         <<AddPc(2), Ldr(2, 2, 4, 1), TableNop, AddToPc(2)>>,          \* no LSLS
         <<AddPc(2), Ldr(3, 2, 4, 1), Lsls(2, 2, 1), AddToPc(2)>>,     \* LDRB R3, [R2, #4]
         <<AddPc(2), Ldr(2, 3, 4, 1), Lsls(2, 2, 1), AddToPc(2)>>,     \* LDRB R2, [R3, #4]
         <<AddPc(2), Ldr(2, 2, 2, 1), Lsls(2, 2, 1), AddToPc(2)>>,     \* LDRB R2, [R2, #2]
         <<AddPc(2), TableNop, Lsls(2, 2, 1), AddToPc(2)>>,            \* no LDR
         <<AddPc(3), Ldr(2, 2, 4, 1), Lsls(2, 2, 1), AddToPc(2)>>,     \* ADD R3, PC
         <<TableInstruction("AddRegisterT2", 2, 3, 0, 0),
           Ldr(2, 2, 4, 1), Lsls(2, 2, 1), AddToPc(2)>>,               \* ADD R2, R3
         <<TableNop, Ldr(2, 2, 4, 1), Lsls(2, 2, 1), AddToPc(2)>>}     \* no ADD

\* the bytes a data region is made of
InputTableBytes == {0, 4, 6, 8}

\* the data regions that may follow the code; no bytes: no data region
InputTableData == UNION {[1..n -> InputTableBytes] : n \in 0..MaxTableBytes}

\* CursorFunctionRegionInstructions.function_offset() and .function_end_offset() of
\* the instruction at `index`
TableFunctionOffset(index) == 2 * (index - 1)

TableFunctionEndOffset(index) == 2 * index

\* Register4.to_register3()
ToRegister3(register) == IF register >= 8 THEN None ELSE register

\* the backward walk of resolve_add_register_t2_pc_offset_table over LSLS, LDR and ADD:
\* [matches, load_size]
TablePatternMatch(cursor) ==
    LET index == cursor.index
        instruction == cursor.instructions[index]
        register == ToRegister3(instruction.m)
        instruction_lsls == cursor.instructions[index - 1]
        instruction_ldr == cursor.instructions[index - 2]
        instructions_add == cursor.instructions[index - 3]
    IN  [matches |->
            /\ register /= None
            /\ index - 1 >= 1
            /\ instruction_lsls.kind = "LslImmediateT1"
            /\ instruction_lsls.d = register
            /\ instruction_lsls.m = register
            /\ instruction_lsls.imm = 1
            /\ index - 2 >= 1
            /\ instruction_ldr.kind = "LdrImmediate"
            /\ instruction_ldr.d = register
            /\ instruction_ldr.m = register
            /\ instruction_ldr.imm * instruction_ldr.load_size = 4
            /\ index - 3 >= 1
            /\ instructions_add.kind = "AddRegisterT2"
            /\ instructions_add.d = register
            /\ instructions_add.m = PC,
         load_size |-> IF index - 2 >= 1 THEN instruction_ldr.load_size ELSE 0]

\* cursor_function.region_data(function_end_offset) is a cursor at offset 0 of a data
\* region: the ADD PC, Rm is the last instruction of its region and data follows it
TableRegionDataAtStart(cursor) ==
    /\ cursor.index = Len(cursor.instructions)
    /\ cursor.data /= <<>>

\* the ValueError of CursorFunctionRegionData.read_unsigned, "" when it reads
ReadUnsignedError(cursor, function_region_data_offset, bytes_) ==
    IF (cursor.function_address + 2 * Len(cursor.instructions) + function_region_data_offset)
           % bytes_ /= 0
    THEN "Attempted unaligned access"
    ELSE IF function_region_data_offset + bytes_ > Len(cursor.data)
         THEN "Overflow for access"
         ELSE ""

\* int.from_bytes(data[offset : offset + bytes_], "little", signed=False)
RECURSIVE FromBytesLittle(_)
FromBytesLittle(value_bytes) ==
    IF value_bytes = <<>>
    THEN 0
    ELSE Head(value_bytes) + 256 * FromBytesLittle(Tail(value_bytes))

\* the value CursorFunctionRegionData.read_unsigned returns
ReadUnsigned(cursor, function_region_data_offset, bytes_) ==
    FromBytesLittle(SubSeq(cursor.data, function_region_data_offset + 1,
                           function_region_data_offset + bytes_))

\* a slip of TableElementSkipped: no element is taken for padding
TableElementSkippedNever(target_instruction_offset) == FALSE

\* "if target_instruction_offset == 0: continue"
TableElementSkipped(target_instruction_offset) == target_instruction_offset = 0

\* the loop "while True" over the data region from function_region_data_offset
\* (None: the region has ended): [error, target_instruction_offsets]
RECURSIVE TargetInstructionOffsets(_, _, _, _)
TargetInstructionOffsets(cursor, function_region_data_offset, load_size, target_instruction_offsets) ==
    IF function_region_data_offset = None
    THEN [error |-> "", target_instruction_offsets |-> target_instruction_offsets]
    ELSE IF ReadUnsignedError(cursor, function_region_data_offset, load_size) /= ""
         THEN [error |-> ReadUnsignedError(cursor, function_region_data_offset, load_size),
               target_instruction_offsets |-> target_instruction_offsets]
         ELSE LET target_instruction_offset ==
                      ReadUnsigned(cursor, function_region_data_offset, load_size)
                  function_region_data_offset_end == function_region_data_offset + load_size
                  next_ == IF function_region_data_offset_end < Len(cursor.data)
                           THEN function_region_data_offset_end
                           ELSE None
              IN  TargetInstructionOffsets(
                      cursor, next_, load_size,
                      IF TableElementSkipped(target_instruction_offset)
                      THEN target_instruction_offsets
                      ELSE target_instruction_offsets \cup {target_instruction_offset * 2})

\* what the resolver gives: outcome "None", "EffectBranch" or the exception raised
TableResolved(outcome, target_function_offsets) ==
    [outcome |-> outcome, conditional |-> FALSE,
     target_function_offsets |-> target_function_offsets]

\* resolve_add_register_t2_pc_offset_table
ResolveAddRegisterT2PcOffsetTable(cursor) ==
    IF ~TablePatternMatch(cursor).matches \/ ~TableRegionDataAtStart(cursor)
    THEN TableResolved("None", {})
    ELSE LET read == TargetInstructionOffsets(cursor, 0, TablePatternMatch(cursor).load_size, {})
         IN  IF read.error /= ""
             THEN TableResolved(read.error, {})
             ELSE IF read.target_instruction_offsets = {}
                  THEN TableResolved("AssertionError", {})
                  ELSE TableResolved(
                           "EffectBranch",
                           {TableFunctionOffset(cursor.index) + 4 + target_instruction_offset :
                               target_instruction_offset \in read.target_instruction_offsets})

\* the exception resolve_add_register_t2_pc ends with, "" when it returns
ResolveAddRegisterT2PcError(cursor) ==
    LET resolved == ResolveAddRegisterT2PcOffsetTable(cursor)
    IN  CASE resolved.outcome = "None" -> "ResolveAddRegisterT2PcUnknownException"
          [] resolved.outcome = "EffectBranch" -> ""
          [] OTHER -> resolved.outcome

\* a function of two-byte instructions with an ADD PC, Rm, followed by a data region
\* or not; the four instructions of a pattern, or its last ones in a function that
\* starts too late for it
TableInit ==
    /\ RegionsIdle
    /\ SpIdle
    /\ DecoderIdle
    /\ BlxIdle
    /\ SolverIdle
    /\ EntrypointsIdle
    /\ FunctionIdle
    /\ PipelineIdle
    /\ OrderIdle
    /\ \E pattern \in InputTablePatterns, preceding \in 0..1, kept \in 1..4, following \in 0..1 :
        \E data \in InputTableData :
            /\ preceding = 1 => kept = 4
            /\ table_cursor_function_region_instructions =
                   [function_address |-> 256,
                    instructions |-> [i \in 1..preceding |-> TableNop]
                                     \o SubSeq(pattern, 5 - kept, 4)
                                     \o [i \in 1..following |-> TableNop],
                    data |-> data,
                    index |-> preceding + kept]
    /\ effects_branch = {}
    /\ effect_branch = {}
    /\ table_error = ""
    /\ table_pc = "resolve"

\* resolve_add_register_t2_pc, "case [effect_branch]: return effect_branch"
ResolveAddRegisterT2PcReturn ==
    /\ table_pc = "resolve"
    /\ ResolveAddRegisterT2PcError(table_cursor_function_region_instructions) = ""
    /\ LET resolved == ResolveAddRegisterT2PcOffsetTable(table_cursor_function_region_instructions)
       IN  /\ effects_branch' = {[conditional |-> resolved.conditional,
                                  target_function_offsets |-> resolved.target_function_offsets]}
           /\ effect_branch' = effects_branch'
    /\ table_pc' = "returned"
    /\ UNCHANGED <<table_cursor_function_region_instructions, table_error>>
    /\ UNCHANGED table_others

\* resolve_add_register_t2_pc, the resolver raises or no resolver resolved anything
ResolveAddRegisterT2PcRaise ==
    /\ table_pc = "resolve"
    /\ ResolveAddRegisterT2PcError(table_cursor_function_region_instructions) /= ""
    /\ table_error' = ResolveAddRegisterT2PcError(table_cursor_function_region_instructions)
    /\ table_pc' = "raised"
    /\ UNCHANGED <<table_cursor_function_region_instructions, effects_branch, effect_branch>>
    /\ UNCHANGED table_others

TableNext ==
    \/ ResolveAddRegisterT2PcReturn
    \/ ResolveAddRegisterT2PcRaise

SpecTable == TableInit /\ [][TableNext]_vars

(***************************************************************************)
(* Properties of the ADD PC, Rm resolver                                   *)
(***************************************************************************)

\* ADD R2, PC; LDRx R2, [R2, #4]; LSLS R2, R2, #1; ADD PC, R2 for an element width
CanonicalTablePattern(width) ==
    <<TableInstruction("AddRegisterT2", 2, PC, 0, 0),
      TableInstruction("LdrImmediate", 2, 2, 4 \div width, width),
      TableInstruction("LslImmediateT1", 2, 2, 1, 0),
      TableInstruction("AddRegisterT2", PC, 2, 0, 0)>>

\* the element width of the pattern that ends at the cursor, 0 when none does
TableWidth ==
    LET cursor == table_cursor_function_region_instructions
    IN  IF cursor.index < 4
        THEN 0
        ELSE LET widths == {width \in {1, 2, 4} :
                                SubSeq(cursor.instructions, cursor.index - 3, cursor.index)
                                    = CanonicalTablePattern(width)}
             IN  IF widths = {} THEN 0 ELSE CHOOSE width \in widths : TRUE

\* the k-th element of a table of little-endian elements
TableElement(data, k, width) ==
    data[k * width + 1]
    + (IF width >= 2 THEN 256 * data[k * width + 2] ELSE 0)
    + (IF width = 4 THEN 65536 * data[k * width + 3] + 16777216 * data[k * width + 4] ELSE 0)

\* the elements of a table whose bytes make whole elements
TableElements(data, width) ==
    {TableElement(data, k, width) : k \in 0..((Len(data) \div width) - 1)}

\* the branch at instr_offset with the targets instr_offset + 4 + 2 * e of the
\* non-zero elements e
TableBranch(instr_offset, elements) ==
    [conditional |-> FALSE,
     target_function_offsets |-> {instr_offset + 4 + 2 * e : e \in elements \ {0}}]

\* the pattern matched and the table right after the branch, of whole elements at
\* addresses the loads can take
TableReadable ==
    LET cursor == table_cursor_function_region_instructions
    IN  /\ TableWidth /= 0
        /\ cursor.index = Len(cursor.instructions)
        /\ cursor.data /= <<>>
        /\ Len(cursor.data) % TableWidth = 0
        /\ (cursor.function_address + 2 * cursor.index) % TableWidth = 0

\* C17: for a matched jump-table pattern with the branch at instr_offset the resolved
\* target set is exactly {instr_offset + 4 + 2 * e : e a non-zero element}, and the table
\* with a zero padding element after it resolves to the same set.
C17_TargetsAreNonZeroElements ==
    LET cursor == table_cursor_function_region_instructions
        padded == [cursor EXCEPT !.data = @ \o [i \in 1..TableWidth |-> 0]]
    IN  /\ table_pc = "returned" =>
               /\ TableReadable
               /\ effect_branch = {TableBranch(2 * (cursor.index - 1),
                                               TableElements(cursor.data, TableWidth))}
               /\ ResolveAddRegisterT2PcOffsetTable(padded).outcome = "EffectBranch"
               /\ ResolveAddRegisterT2PcOffsetTable(padded).target_function_offsets
                      = TableBranch(2 * (cursor.index - 1),
                                    TableElements(cursor.data, TableWidth)).target_function_offsets
        /\ (/\ table_pc /= "resolve"
            /\ TableReadable
            /\ TableElements(cursor.data, TableWidth) /= {0})
               => table_pc = "returned"

\* ADD R2, PC; LDRB R2, [R2, #4]; LSLS R2, R2, #1; ADD PC, R2; DATA 0x04 0x06 0x08 0x00:
\* three targets
C17_Witness ==
    /\ table_pc = "returned"
    /\ table_cursor_function_region_instructions.instructions = CanonicalTablePattern(1)
    /\ table_cursor_function_region_instructions.data = <<4, 6, 8, 0>>
    /\ effect_branch = {[conditional |-> FALSE, target_function_offsets |-> {18, 22, 26}]}


\* the pattern matched and a data region starts at the end offset of the ADD PC, Rm
TablePatternBeforeData ==
    /\ TableWidth /= 0
    /\ table_cursor_function_region_instructions.index
           = Len(table_cursor_function_region_instructions.instructions)
    /\ table_cursor_function_region_instructions.data /= <<>>

\* C25: whenever the jump-table pattern matches and a data region starts at the end
\* offset of the ADD PC, Rm, the resolver returns an unconditional branch with a
\* non-empty target set, whatever the data region holds: the assertion on the collected
\* targets never fails.
C25_TableAlwaysResolved ==
    (table_pc /= "resolve" /\ TablePatternBeforeData) =>
        /\ table_error /= "AssertionError"
        /\ table_pc = "returned"
        /\ \A branch \in effect_branch :
              ~branch.conditional /\ branch.target_function_offsets /= {}

\* ADD R2, PC; LDRB R2, [R2, #4]; LSLS R2, R2, #1; ADD PC, R2; DATA 0x00 0x00: every
\* element is taken for padding and "assert target_instruction_offsets" fails
C25_AssertionFails ==
    /\ table_pc = "raised"
    /\ table_error = "AssertionError"
    /\ table_cursor_function_region_instructions.instructions = CanonicalTablePattern(1)
    /\ table_cursor_function_region_instructions.data = <<0, 0>>

(***************************************************************************)
(* Instruction decoder: instructions_from_opcodes over a code region       *)
(***************************************************************************)

\* largest number of bytes of an input code region
MaxOpcodeBytes == 6

\* the low and the high bytes of the half-words of the inputs:
\* MOVS R0, R0 (0x0000), BX R0 / LR / PC (0x4700, 0x4770, 0x4778), NOP and undefined
\* hints (0xBF00, 0xBF70, 0xBF78), first half-words of 32-bit encodings (0xE8.., 0xF0..,
\* 0xF8..), second half-words of BL (0xF0.., 0xF8..)
InputLowBytes == {0, 112, 120}

InputHighBytes == {0, 71, 191, 232, 240, 248}

\* a code region of n bytes, low and high bytes in turn
InputOpcodes(n, lows, highs) ==
    [i \in 1..n |-> IF i % 2 = 1 THEN lows[(i + 1) \div 2] ELSE highs[i \div 2]]

\* 2 ** exponent
RECURSIVE Pow2(_)
Pow2(exponent) == IF exponent = 0 THEN 1 ELSE 2 * Pow2(exponent - 1)

\* bit `bit` of the integer int.from_bytes(opcode_bytes, "little")
OpcodeBit(opcode_bytes, bit) ==
    IF bit \div 8 + 1 > Len(opcode_bytes)
    THEN 0
    ELSE (opcode_bytes[bit \div 8 + 1] \div Pow2(bit % 8)) % 2

\* _bits_msb_from_int(opcode >> shift, output_bits)
BitsMsbFromInt(opcode_bytes, shift, output_bits) ==
    [i \in 1..output_bits |-> OpcodeBit(opcode_bytes, shift + output_bits - i) = 1]

\* (opcode >> lsb_index) & 0b1111
Register4FromOpcode(opcode_bytes, lsb_index) ==
    OpcodeBit(opcode_bytes, lsb_index) + 2 * OpcodeBit(opcode_bytes, lsb_index + 1)
    + 4 * OpcodeBit(opcode_bytes, lsb_index + 2) + 8 * OpcodeBit(opcode_bytes, lsb_index + 3)

\* ((opcode >> 4) & 0b1000) | (opcode & 0b111)
Register47210FromOpcode(opcode_bytes) ==
    OpcodeBit(opcode_bytes, 0) + 2 * OpcodeBit(opcode_bytes, 1)
    + 4 * OpcodeBit(opcode_bytes, 2) + 8 * OpcodeBit(opcode_bytes, 7)

\* Register4.SP
SP == 13

\* instruction_from_opcode_halfword on the encodings the inputs are made of: shift,
\* add, subtract, move and compare; special data and branch and exchange; hints; and
\* the half-words no case takes. "Instruction16" or the exception raised
InstructionFromOpcodeHalfword(opcode_bytes) ==
    LET opcode_1 == BitsMsbFromInt(opcode_bytes, 10, 6)
        opcode_special == BitsMsbFromInt(opcode_bytes, 6, 4)
        opcode_misc == BitsMsbFromInt(opcode_bytes, 5, 7)
        opcode_a == BitsMsbFromInt(opcode_bytes, 4, 4)
        opcode_b == BitsMsbFromInt(opcode_bytes, 0, 4)
        rdn4 == Register47210FromOpcode(opcode_bytes)
        rm4 == Register4FromOpcode(opcode_bytes, 3)
    IN  CASE ~opcode_1[1] /\ ~opcode_1[2] -> "Instruction16"
          [] opcode_1 = <<FALSE, TRUE, FALSE, FALSE, FALSE, TRUE>> ->
                (CASE ~opcode_special[1] /\ ~opcode_special[2] ->
                        IF rm4 /= SP /\ rdn4 /= SP /\ rdn4 = PC /\ rm4 = PC
                        THEN "InstructionUnpredictable"
                        ELSE "Instruction16"
                  [] opcode_special = <<FALSE, TRUE, FALSE, FALSE>> -> "InstructionUnpredictable"
                  [] ~opcode_special[1] /\ opcode_special[2]
                     /\ opcode_special /= <<FALSE, TRUE, FALSE, FALSE>> ->
                        IF (rdn4 < 8 /\ rm4 < 8) \/ rdn4 = PC \/ rm4 = PC
                        THEN "InstructionUnpredictable"
                        ELSE "Instruction16"
                  [] opcode_special[1] /\ ~opcode_special[2] -> "Instruction16"
                  [] opcode_special[1] /\ opcode_special[2] ->
                        IF rm4 = PC THEN "InstructionUnpredictable" ELSE "Instruction16")
          [] /\ SubSeq(opcode_1, 1, 4) = <<TRUE, FALSE, TRUE, TRUE>>
             /\ SubSeq(opcode_misc, 1, 4) = <<TRUE, TRUE, TRUE, TRUE>> ->
                IF opcode_b /= <<FALSE, FALSE, FALSE, FALSE>>
                THEN "InstructionUndefined"
                ELSE IF opcode_a \in {<<FALSE, FALSE, FALSE, FALSE>>, <<FALSE, FALSE, FALSE, TRUE>>,
                                      <<FALSE, FALSE, TRUE, FALSE>>, <<FALSE, FALSE, TRUE, TRUE>>,
                                      <<FALSE, TRUE, FALSE, FALSE>>}
                     THEN "Instruction16"
                     ELSE "InstructionUndefined"
          [] /\ SubSeq(opcode_1, 1, 3) = <<TRUE, TRUE, TRUE>>
             /\ opcode_1[4] \/ opcode_1[5] -> "InstructionUndefined"

\* instruction_from_opcode_word: "Instruction32" or the exception raised
InstructionFromOpcodeWord(opcode_bytes) ==
    LET opcode_1 == BitsMsbFromInt(opcode_bytes, 27, 2)
        opcode_2 == BitsMsbFromInt(opcode_bytes, 15, 1)
        opcode_bis_1 == BitsMsbFromInt(opcode_bytes, 20, 7)
        opcode_bis_2 == BitsMsbFromInt(opcode_bytes, 12, 3)
        opcode_bis_bis == BitsMsbFromInt(opcode_bytes, 4, 4)
    IN  IF opcode_1 /= <<TRUE, FALSE>> \/ opcode_2 /= <<TRUE>>
        THEN "InstructionUndefined"
        ELSE IF opcode_bis_2[1] /\ opcode_bis_2[3]
             THEN "Instruction32"
             ELSE IF opcode_bis_2[1] \/ opcode_bis_2[3]
                  THEN "InstructionUndefined"
                  ELSE CASE SubSeq(opcode_bis_1, 1, 6) = <<FALSE, TRUE, TRUE, TRUE, FALSE, FALSE>> ->
                               IF Register4FromOpcode(opcode_bytes, 16) \in {SP, PC}
                               THEN "InstructionUnpredictable"
                               ELSE "Instruction32"
                         [] opcode_bis_1 = <<FALSE, TRUE, TRUE, TRUE, FALSE, TRUE, TRUE>> ->
                               IF opcode_bis_bis \in {<<FALSE, TRUE, FALSE, FALSE>>,
                                                      <<FALSE, TRUE, FALSE, TRUE>>,
                                                      <<FALSE, TRUE, TRUE, FALSE>>}
                               THEN "Instruction32"
                               ELSE "InstructionUndefined"
                         [] SubSeq(opcode_bis_1, 1, 6) = <<FALSE, TRUE, TRUE, TRUE, TRUE, TRUE>> ->
                               IF Register4FromOpcode(opcode_bytes, 8) \in {SP, PC}
                               THEN "InstructionUnpredictable"
                               ELSE "Instruction32"
                         [] opcode_bis_1 = <<TRUE, TRUE, TRUE, TRUE, TRUE, TRUE, TRUE>> ->
                               "Instruction32"
                         [] OTHER -> "InstructionUndefined"


\* Instruction16.size() and Instruction32.size()
InstructionSizeAlwaysTwo(instruction) == 2

InstructionSize(instruction) == IF instruction = "Instruction32" THEN 4 ELSE 2

\* sum(instruction.size() for instruction in instructions)
RECURSIVE InstructionsSize(_)
InstructionsSize(instructions) ==
    IF instructions = <<>>
    THEN 0
    ELSE InstructionSize(Head(instructions)) + InstructionsSize(Tail(instructions))

\* the chunk of at most two bytes that next(opcodes_halfword_iterator) returns at offset
OpcodeHalfwordBytes(offset) ==
    SubSeq(opcodes_bytes, offset + 1, IF offset + 2 <= Len(opcodes_bytes)
                                      THEN offset + 2
                                      ELSE Len(opcodes_bytes))

\* opcode_halfword_bytes[1] >> 3 in (0b11101, 0b11110, 0b11111)
Is32Bit(opcode_halfword_bytes) == (opcode_halfword_bytes[2] \div 8) \in {29, 30, 31}

\* one round of the loop of instructions_from_opcodes with a chunk left at opcodes_offset:
\* the instruction yielded or the exception raised, and the bytes taken from the iterator
InstructionFromOpcodes ==
    LET opcode_halfword_bytes == OpcodeHalfwordBytes(opcodes_offset)
        opcode_halfword_bytes_2 == OpcodeHalfwordBytes(opcodes_offset + 2)
        instruction_16 == InstructionFromOpcodeHalfword(opcode_halfword_bytes)
        instruction_32 ==
            InstructionFromOpcodeWord(opcode_halfword_bytes_2 \o opcode_halfword_bytes)
    IN  IF Len(opcode_halfword_bytes) < 2
        THEN [instruction |-> "", error |-> "IndexError", taken |-> Len(opcode_halfword_bytes)]
        ELSE IF Is32Bit(opcode_halfword_bytes)
        THEN IF opcodes_offset + 2 >= Len(opcodes_bytes)
             THEN [instruction |-> "", error |-> "32 bit instruction ended prematurely.",
                   taken |-> 2]
             ELSE IF instruction_32 /= "Instruction32"
             THEN [instruction |-> "", error |-> instruction_32,
                   taken |-> 2 + Len(opcode_halfword_bytes_2)]
             ELSE IF InstructionSize(instruction_32) /= 4
             THEN [instruction |-> "", error |-> "AssertionError",
                   taken |-> 2 + Len(opcode_halfword_bytes_2)]
             ELSE [instruction |-> instruction_32, error |-> "",
                   taken |-> 2 + Len(opcode_halfword_bytes_2)]
        ELSE IF instruction_16 /= "Instruction16"
             THEN [instruction |-> "", error |-> instruction_16, taken |-> 2]
             ELSE IF InstructionSize(instruction_16) /= 2
             THEN [instruction |-> "", error |-> "AssertionError", taken |-> 2]
             ELSE [instruction |-> instruction_16, error |-> "", taken |-> 2]

\* parse_function_region is called on a code region: any sequence of at most
\* MaxOpcodeBytes bytes, of even or odd length
DecoderInit ==
    /\ RegionsIdle
    /\ SpIdle
    /\ \E n \in 0..MaxOpcodeBytes :
          \E lows \in [1..((n + 1) \div 2) -> InputLowBytes],
             highs \in [1..(n \div 2) -> InputHighBytes] :
              opcodes_bytes = InputOpcodes(n, lows, highs)
    /\ opcodes_offset = 0
    /\ decoded_instructions = <<>>
    /\ decoder_error = ""
    /\ decoder_pc = "decode"
    /\ SolverIdle /\ EntrypointsIdle /\ FunctionIdle /\ PipelineIdle /\ BlxIdle
    /\ OrderIdle /\ TableIdle

\* the loop yields a 16-bit instruction
InstructionsFromOpcodesYield16 ==
    /\ decoder_pc = "decode"
    /\ opcodes_offset < Len(opcodes_bytes)
    /\ InstructionFromOpcodes.instruction = "Instruction16"
    /\ decoded_instructions' = Append(decoded_instructions, InstructionFromOpcodes.instruction)
    /\ opcodes_offset' = opcodes_offset + InstructionFromOpcodes.taken
    /\ UNCHANGED <<opcodes_bytes, decoder_error, decoder_pc>>
    /\ UNCHANGED decoder_others

\* the loop yields a 32-bit instruction
InstructionsFromOpcodesYield32 ==
    /\ decoder_pc = "decode"
    /\ opcodes_offset < Len(opcodes_bytes)
    /\ InstructionFromOpcodes.instruction = "Instruction32"
    /\ decoded_instructions' = Append(decoded_instructions, InstructionFromOpcodes.instruction)
    /\ opcodes_offset' = opcodes_offset + InstructionFromOpcodes.taken
    /\ UNCHANGED <<opcodes_bytes, decoder_error, decoder_pc>>
    /\ UNCHANGED decoder_others

\* the loop raises: the exception leaves list(instructions_from_opcodes(opcodes))
InstructionsFromOpcodesRaise ==
    /\ decoder_pc = "decode"
    /\ opcodes_offset < Len(opcodes_bytes)
    /\ InstructionFromOpcodes.error /= ""
    /\ decoder_error' = InstructionFromOpcodes.error
    /\ opcodes_offset' = opcodes_offset + InstructionFromOpcodes.taken
    /\ decoder_pc' = "raised"
    /\ UNCHANGED <<opcodes_bytes, decoded_instructions>>
    /\ UNCHANGED decoder_others

\* the iterator is exhausted: the loop breaks, and parse_function_region asserts that
\* the instructions cover the region before it returns them
ParseFunctionRegionReturn ==
    /\ decoder_pc = "decode"
    /\ opcodes_offset >= Len(opcodes_bytes)
    /\ IF InstructionsSize(decoded_instructions) = Len(opcodes_bytes)
       THEN /\ decoder_pc' = "returned"
            /\ UNCHANGED decoder_error
       ELSE /\ decoder_pc' = "raised"
            /\ decoder_error' = "AssertionError"
    /\ UNCHANGED <<opcodes_bytes, opcodes_offset, decoded_instructions>>
    /\ UNCHANGED decoder_others

DecoderNext ==
    \/ InstructionsFromOpcodesYield16
    \/ InstructionsFromOpcodesYield32
    \/ InstructionsFromOpcodesRaise
    \/ ParseFunctionRegionReturn

SpecDecoder == DecoderInit /\ [][DecoderNext]_vars


(***************************************************************************)
(* Claims about the instruction decoder                                    *)
(***************************************************************************)

\* the offset in the region of the k-th decoded instruction
DecodedInstructionOffset(k) == InstructionsSize(SubSeq(decoded_instructions, 1, k - 1))

\* the five most significant bits of the half-word at offset are 11101, 11110 or 11111:
\* its high byte is at least 0b11101000
HalfwordPrefix32(offset) == opcodes_bytes[offset + 2] >= 232

\* C19: whenever instructions_from_opcodes succeeds on a byte sequence, every decoded
\* instruction has size 2 or 4, it has size 4 exactly when the five most significant
\* bits of its first half-word are 11101, 11110 or 11111, and the sizes sum to the
\* length of the input (the assertion of parse_function_region never fails); and a
\* 32-bit first half-word with no second half-word left makes the decoder raise
\* "32 bit instruction ended prematurely." instead of yielding an instruction
C19_SizesCoverInput ==
    /\ decoder_error /= "AssertionError"
    /\ decoder_pc = "returned" =>
          /\ \A k \in 1..Len(decoded_instructions) :
                /\ InstructionSize(decoded_instructions[k]) \in {2, 4}
                /\ InstructionSize(decoded_instructions[k]) = 4
                   <=> HalfwordPrefix32(DecodedInstructionOffset(k))
          /\ InstructionsSize(decoded_instructions) = Len(opcodes_bytes)
    /\ /\ decoder_pc \in {"returned", "raised"}
       /\ InstructionsSize(decoded_instructions) + 2 = Len(opcodes_bytes)
       /\ HalfwordPrefix32(InstructionsSize(decoded_instructions))
       => /\ decoder_pc = "raised"
          /\ decoder_error = "32 bit instruction ended prematurely."

\* a NOP and a BL are decoded from six bytes
C19_Witness ==
    /\ decoder_pc = "returned"
    /\ opcodes_bytes = <<0, 191, 0, 240, 0, 248>>
    /\ decoded_instructions = <<"Instruction16", "Instruction32">>

\* a BL whose second half-word is missing is reported
C19_WitnessTruncated ==
    /\ decoder_pc = "raised"
    /\ opcodes_bytes = <<0, 0, 0, 240>>
    /\ decoded_instructions = <<"Instruction16">>
    /\ decoder_error = "32 bit instruction ended prematurely."

(***************************************************************************)
(* SP-effect resolver over decoded half-words                              *)
(* (instructions_decoder/parse.py, s04 _stack_pointer_effect.py)           *)
(***************************************************************************)

\* low and high bytes of the half-words decoded: special data and branch and exchange
\* (0x44..0x47) and miscellaneous 16-bit instructions (0xB0..0xBF), the two groups
\* whose instruction classes can have SP in affects_registers()
InputSpLowBytes == {0, 5, 16, 98, 104, 109, 133, 237, 255}

InputSpHighBytes == {68, 69, 70, 71, 176, 177, 178, 180, 181, 182, 186, 188, 189, 190, 191}

\* Register4.LR
LR == 14

\* an Instruction: its class, and the fields the class has (None and {} for the others):
\* d for d, dn, dm and n; m; imm; flag for lr, pc and im; registers3
DecodedInstruction(kind, d, m, imm, flag, registers3) ==
    [kind |-> kind, d |-> d, m |-> m, imm |-> imm, flag |-> flag, registers3 |-> registers3]

\* the exception instruction_from_opcode_halfword raised in place of an Instruction
InstructionException(kind) == DecodedInstruction(kind, None, None, 0, FALSE, {})

\* _register3_from_opcode(opcode, lsb_index)
Register3FromOpcode(opcode_bytes, lsb_index) ==
    OpcodeBit(opcode_bytes, lsb_index) + 2 * OpcodeBit(opcode_bytes, lsb_index + 1)
    + 4 * OpcodeBit(opcode_bytes, lsb_index + 2)

\* _registers3_from_opcode(opcode): the registers of the low eight bits
Registers3FromOpcode(opcode_bytes) == {r \in 0..7 : OpcodeBit(opcode_bytes, r) = 1}

\* _imm_from_opcode(opcode, bits, shift)
RECURSIVE ImmFromOpcode(_, _, _)
ImmFromOpcode(opcode_bytes, bits, shift) ==
    IF bits = 0
    THEN 0
    ELSE OpcodeBit(opcode_bytes, shift) + 2 * ImmFromOpcode(opcode_bytes, bits - 1, shift + 1)

\* instruction_from_opcode_halfword, A5.2.3 special data instructions and branch and
\* exchange
InstructionFromSpecialData(opcode_bytes) ==
    LET opcode_2 == BitsMsbFromInt(opcode_bytes, 6, 4)
        r7210 == Register47210FromOpcode(opcode_bytes)
        rm4 == Register4FromOpcode(opcode_bytes, 3)
    IN  CASE ~opcode_2[1] /\ ~opcode_2[2] ->
                 (CASE rm4 = SP -> DecodedInstruction("InstructionAddSpPlusRegisterT1", r7210, None, 0, FALSE, {})
                    [] rm4 # SP /\ r7210 = SP ->
                           DecodedInstruction("InstructionAddSpPlusRegisterT2", None, rm4, 0, FALSE, {})
                    [] rm4 # SP /\ r7210 = PC /\ rm4 = PC ->
                           InstructionException("InstructionUnpredictable")
                    [] OTHER -> DecodedInstruction("InstructionAddRegisterT2", r7210, rm4, 0, FALSE, {}))
          [] ~opcode_2[1] /\ opcode_2[2] /\ ~opcode_2[3] /\ ~opcode_2[4] ->
                 InstructionException("InstructionUnpredictable")
          [] ~opcode_2[1] /\ opcode_2[2] /\ (opcode_2[3] \/ opcode_2[4]) ->
                 (IF (r7210 < 8 /\ rm4 < 8) \/ r7210 = PC \/ rm4 = PC
                  THEN InstructionException("InstructionUnpredictable")
                  ELSE DecodedInstruction("InstructionCmpRegisterT2", r7210, rm4, 0, FALSE, {}))
          [] opcode_2[1] /\ ~opcode_2[2] ->
                 DecodedInstruction("InstructionMovRegisterT1", r7210, rm4, 0, FALSE, {})
          [] opcode_2[1] /\ opcode_2[2] /\ ~opcode_2[3] ->
                 (IF rm4 = PC
                  THEN InstructionException("InstructionUnpredictable")
                  ELSE DecodedInstruction("InstructionBxT1", None, rm4, 0, FALSE, {}))
          [] opcode_2[1] /\ opcode_2[2] /\ opcode_2[3] ->
                 (IF rm4 = PC
                  THEN InstructionException("InstructionUnpredictable")
                  ELSE DecodedInstruction("InstructionBlxRegisterT1", None, rm4, 0, FALSE, {}))

\* the fields rd, rm of the instructions of two Register3
DecodedD3M3(kind, opcode_bytes) ==
    DecodedInstruction(kind, Register3FromOpcode(opcode_bytes, 0),
                       Register3FromOpcode(opcode_bytes, 3), 0, FALSE, {})

\* instruction_from_opcode_halfword, the hint instructions
InstructionFromHint(opcode_bytes) ==
    LET opcode_a == ImmFromOpcode(opcode_bytes, 4, 4)
        opcode_b == ImmFromOpcode(opcode_bytes, 4, 0)
    IN  IF opcode_b # 0 \/ opcode_a > 4
        THEN InstructionException("InstructionUndefined")
        ELSE DecodedInstruction(CASE opcode_a = 0 -> "InstructionNopT1"
                                  [] opcode_a = 1 -> "InstructionYieldT1"
                                  [] opcode_a = 2 -> "InstructionWfeT1"
                                  [] opcode_a = 3 -> "InstructionWfiT1"
                                  [] opcode_a = 4 -> "InstructionSevT1",
                                None, None, 0, FALSE, {})

\* instruction_from_opcode_halfword, A5.2.5 miscellaneous 16-bit instructions
InstructionFromMiscellaneous(opcode_bytes) ==
    LET o == BitsMsbFromInt(opcode_bytes, 5, 7)
        bit8 == OpcodeBit(opcode_bytes, 8) = 1
        registers3 == Registers3FromOpcode(opcode_bytes)
    IN  CASE ~o[1] /\ ~o[2] /\ ~o[3] /\ ~o[4] /\ ~o[5] ->
                 DecodedInstruction("InstructionAddSpPlusImmediateT2", None, None,
                                    ImmFromOpcode(opcode_bytes, 7, 0), FALSE, {})
          [] ~o[1] /\ ~o[2] /\ ~o[3] /\ ~o[4] /\ o[5] ->
                 DecodedInstruction("InstructionSubSpMinusImmediateT1", None, None,
                                    ImmFromOpcode(opcode_bytes, 7, 0), FALSE, {})
          [] ~o[1] /\ ~o[2] /\ o[3] /\ ~o[4] /\ ~o[5] /\ ~o[6] ->
                 DecodedD3M3("InstructionSxthT1", opcode_bytes)
          [] ~o[1] /\ ~o[2] /\ o[3] /\ ~o[4] /\ ~o[5] /\ o[6] ->
                 DecodedD3M3("InstructionSxtbT1", opcode_bytes)
          [] ~o[1] /\ ~o[2] /\ o[3] /\ ~o[4] /\ o[5] /\ ~o[6] ->
                 DecodedD3M3("InstructionUxthT1", opcode_bytes)
          [] ~o[1] /\ ~o[2] /\ o[3] /\ ~o[4] /\ o[5] /\ o[6] ->
                 DecodedD3M3("InstructionUxtbT1", opcode_bytes)
          [] ~o[1] /\ o[2] /\ ~o[3] ->
                 (IF ~(bit8 \/ registers3 # {})
                  THEN InstructionException("InstructionUnpredictable")
                  ELSE DecodedInstruction("InstructionPushT1", None, None, 0, bit8, registers3))
          [] ~o[1] /\ o[2] /\ o[3] /\ ~o[4] /\ ~o[5] /\ o[6] /\ o[7] ->
                 DecodedInstruction("InstructionCpsT1", None, None, 0,
                                    OpcodeBit(opcode_bytes, 4) = 1, {})
          [] o[1] /\ ~o[2] /\ o[3] /\ ~o[4] /\ ~o[5] /\ ~o[6] ->
                 DecodedD3M3("InstructionRevT1", opcode_bytes)
          [] o[1] /\ ~o[2] /\ o[3] /\ ~o[4] /\ ~o[5] /\ o[6] ->
                 DecodedD3M3("InstructionRev16T1", opcode_bytes)
          [] o[1] /\ ~o[2] /\ o[3] /\ ~o[4] /\ o[5] /\ o[6] ->
                 DecodedD3M3("InstructionRevshT1", opcode_bytes)
          [] o[1] /\ o[2] /\ ~o[3] ->
                 (IF ~(bit8 \/ registers3 # {})
                  THEN InstructionException("InstructionUnpredictable")
                  ELSE DecodedInstruction("InstructionPopT1", None, None, 0, bit8, registers3))
          [] o[1] /\ o[2] /\ o[3] /\ ~o[4] ->
                 DecodedInstruction("InstructionBkptT1", None, None,
                                    ImmFromOpcode(opcode_bytes, 8, 0), FALSE, {})
          [] o[1] /\ o[2] /\ o[3] /\ o[4] -> InstructionFromHint(opcode_bytes)
          [] OTHER -> InstructionException("InstructionUndefined")

\* instruction_from_opcode_halfword on the two groups, with every field of the
\* Instruction it returns
InstructionFromOpcodeHalfwordFields(opcode_bytes) ==
    LET opcode_1 == BitsMsbFromInt(opcode_bytes, 10, 6)
    IN  CASE ~opcode_1[1] /\ opcode_1[2] /\ ~opcode_1[3] /\ ~opcode_1[4] /\ ~opcode_1[5]
             /\ opcode_1[6] -> InstructionFromSpecialData(opcode_bytes)
          [] opcode_1[1] /\ ~opcode_1[2] /\ opcode_1[3] /\ opcode_1[4] ->
                 InstructionFromMiscellaneous(opcode_bytes)

\* the decoder raised instead of returning an Instruction
IsInstructionException(decoded) ==
    decoded.kind \in {"InstructionUnpredictable", "InstructionUndefined"}

\* Instruction.affects_registers() of the classes the two groups decode to
InstructionAffectsRegisters(decoded) ==
    CASE decoded.kind \in {"InstructionAddSpPlusImmediateT2", "InstructionAddSpPlusRegisterT2",
                           "InstructionPushT1", "InstructionSubSpMinusImmediateT1"} -> {SP}
      [] decoded.kind \in {"InstructionAddSpPlusRegisterT1", "InstructionAddRegisterT2",
                           "InstructionMovRegisterT1", "InstructionSxthT1", "InstructionSxtbT1",
                           "InstructionUxthT1", "InstructionUxtbT1", "InstructionRevT1",
                           "InstructionRev16T1", "InstructionRevshT1"} -> {decoded.d}
      [] decoded.kind = "InstructionPopT1" ->
             (IF decoded.flag THEN {PC} ELSE {}) \cup decoded.registers3 \cup {SP}
      [] decoded.kind = "InstructionBxT1" -> {PC}
      [] decoded.kind = "InstructionBlxRegisterT1" -> {LR, PC}
      [] OTHER -> {}

\* what _stack_pointer_effect.resolve does with an instruction: it returns Effect(add)
\* or None, or it raises. The half-words decode to no MSR, the one case left out
StackPointerEffectResolve(decoded) ==
    CASE decoded.kind = "InstructionAddSpPlusImmediateT2" ->
             [outcome |-> "Effect", add |-> decoded.imm * 4]
      [] decoded.kind = "InstructionAddSpPlusRegisterT1" ->
             (IF decoded.d = SP
              THEN [outcome |-> "ResolveUnsupportedInstructionException", add |-> 0]
              ELSE [outcome |-> "None", add |-> 0])
      [] decoded.kind = "InstructionMovRegisterT1" ->
             (IF decoded.d = SP
              THEN [outcome |-> "ResolveUnsupportedInstructionException", add |-> 0]
              ELSE [outcome |-> "None", add |-> 0])
      [] decoded.kind = "InstructionPopT1" ->
             [outcome |-> "Effect",
              add |-> ((IF decoded.flag THEN 1 ELSE 0) + Cardinality(decoded.registers3)) * 4]
      [] decoded.kind = "InstructionPushT1" ->
             [outcome |-> "Effect",
              add |-> ((IF decoded.flag THEN 1 ELSE 0) + Cardinality(decoded.registers3)) * (-4)]
      [] decoded.kind = "InstructionSubSpMinusImmediateT1" ->
             [outcome |-> "Effect", add |-> decoded.imm * (-4)]
      [] OTHER ->
             (IF SP \in InstructionAffectsRegisters(decoded)
              THEN [outcome |-> "AssertionError", add |-> 0]
              ELSE [outcome |-> "None", add |-> 0])

SpInit ==
    /\ RegionsIdle
    /\ SolverIdle
    /\ EntrypointsIdle
    /\ FunctionIdle
    /\ PipelineIdle
    /\ BlxIdle
    /\ OrderIdle
    /\ TableIdle
    /\ DecoderIdle
    /\ \E low \in InputSpLowBytes, high \in InputSpHighBytes :
           sp_opcode_halfword = <<low, high>>
    /\ sp_instruction = <<>>
    /\ stack_pointer_effect = <<>>
    /\ sp_error = ""
    /\ sp_pc = "decode"

\* instruction_from_opcode_halfword returns an Instruction
InstructionFromOpcodeHalfwordReturn ==
    /\ sp_pc = "decode"
    /\ ~IsInstructionException(InstructionFromOpcodeHalfwordFields(sp_opcode_halfword))
    /\ sp_instruction' = InstructionFromOpcodeHalfwordFields(sp_opcode_halfword)
    /\ sp_pc' = "resolve"
    /\ UNCHANGED <<sp_opcode_halfword, stack_pointer_effect, sp_error>>
    /\ UNCHANGED sp_others

\* instruction_from_opcode_halfword raises InstructionUnpredictable or InstructionUndefined
InstructionFromOpcodeHalfwordRaise ==
    /\ sp_pc = "decode"
    /\ IsInstructionException(InstructionFromOpcodeHalfwordFields(sp_opcode_halfword))
    /\ sp_error' = InstructionFromOpcodeHalfwordFields(sp_opcode_halfword).kind
    /\ sp_pc' = "raised"
    /\ UNCHANGED <<sp_opcode_halfword, sp_instruction, stack_pointer_effect>>
    /\ UNCHANGED sp_others

\* _stack_pointer_effect.resolve returns an Effect or None
StackPointerEffectResolveReturn ==
    /\ sp_pc = "resolve"
    /\ StackPointerEffectResolve(sp_instruction).outcome \in {"Effect", "None"}
    /\ stack_pointer_effect' = StackPointerEffectResolve(sp_instruction)
    /\ sp_pc' = "returned"
    /\ UNCHANGED <<sp_opcode_halfword, sp_instruction, sp_error>>
    /\ UNCHANGED sp_others

\* _stack_pointer_effect.resolve raises: the unsupported instruction, or the assertion
\* of its default case
StackPointerEffectResolveRaise ==
    /\ sp_pc = "resolve"
    /\ StackPointerEffectResolve(sp_instruction).outcome \notin {"Effect", "None"}
    /\ sp_error' = StackPointerEffectResolve(sp_instruction).outcome
    /\ sp_pc' = "raised"
    /\ UNCHANGED <<sp_opcode_halfword, sp_instruction, stack_pointer_effect>>
    /\ UNCHANGED sp_others

SpNext ==
    \/ InstructionFromOpcodeHalfwordReturn
    \/ InstructionFromOpcodeHalfwordRaise
    \/ StackPointerEffectResolveReturn
    \/ StackPointerEffectResolveRaise

SpecSp == SpInit /\ [][SpNext]_vars

(***************************************************************************)
(* Properties of the SP-effect resolver                                    *)
(***************************************************************************)

\* the resolver has been handed a decoded instruction and has answered
SpResolved ==
    /\ sp_instruction # <<>>
    /\ sp_pc \in {"returned", "raised"}

\* the decoded instruction writes SP
SpWritesSp == SP \in InstructionAffectsRegisters(sp_instruction)

\* C26: every decoded instruction whose write set contains SP is answered by the
\* SP-effect resolver with a numeric delta or with the unsupported-instruction
\* rejection; the assertion of the default case never fails.
C26_SpWritersHandled ==
    (SpResolved /\ SpWritesSp) =>
        \/ sp_pc = "returned" /\ stack_pointer_effect.outcome = "Effect"
        \/ sp_pc = "raised" /\ sp_error = "ResolveUnsupportedInstructionException"

\* ADD SP, R0 (0x4485) decodes to ADD (SP plus register) T2 and fails the assertion
C26_AddSpRegisterAsserts ==
    /\ sp_opcode_halfword = <<133, 68>>
    /\ sp_instruction.kind = "InstructionAddSpPlusRegisterT2"
    /\ sp_instruction.m = 0
    /\ sp_pc = "raised"
    /\ sp_error = "AssertionError"

(***************************************************************************)
(* Code/data regions of a function (s01 resolve_function_regions)          *)
(***************************************************************************)

\* largest size of the function whose regions are resolved
MaxRegionsFunctionSize == 6

\* addresses a $t or $d symbol may have: half-word aligned (the scan of the symbols
\* rejects the others), before, inside and after the function
InputMarkerAddresses == {a \in 96..(101 + MaxRegionsFunctionSize) : a % 2 = 0}

\* sorted(code_data_marker_by_address)
RECURSIVE SortedAscending(_)
SortedAscending(S) ==
    IF S = {}
    THEN <<>>
    ELSE LET least == CHOOSE a \in S : \A b \in S : a <= b
         IN  <<least>> \o SortedAscending(S \ {least})

\* bisect_left(a, x): the number of elements of the sorted list below x
BisectLeft(a, x) == Cardinality({i \in DOMAIN a : a[i] < x})

\* bisect_right(a, x): the number of elements of the sorted list not above x
BisectRight(a, x) == Cardinality({i \in DOMAIN a : a[i] <= x})

\* a slip of CodeDataMarkerFunctionOffsets: a marker that repeats the kind of the one
\* before it is left out
CodeDataMarkerFunctionOffsetsMerged(function, markers) ==
    LET code_data_marker_addresses == SortedAscending(DOMAIN markers)
        index_first == BisectLeft(code_data_marker_addresses, function.address)
        index_last == BisectRight(code_data_marker_addresses, function.address + function.size - 1)
        kept == {i \in (index_first + 1)..index_last :
                    i = index_first + 1
                    \/ markers[code_data_marker_addresses[i]]
                           # markers[code_data_marker_addresses[i - 1]]}
        slice == SortedAscending({code_data_marker_addresses[i] : i \in kept})
    IN  [i \in DOMAIN slice |->
            [function_offset |-> slice[i] - function.address, code_data |-> markers[slice[i]]]]

\* code_data_marker_function_offsets as its items in insertion order: the markers
\* within the function, by function offset
CodeDataMarkerFunctionOffsets(function, markers) ==
    LET code_data_marker_addresses == SortedAscending(DOMAIN markers)
        index_first == BisectLeft(code_data_marker_addresses, function.address)
        index_last == BisectRight(code_data_marker_addresses, function.address + function.size - 1)
        slice == SubSeq(code_data_marker_addresses, index_first + 1, index_last)
    IN  [i \in DOMAIN slice |->
            [function_offset |-> slice[i] - function.address, code_data |-> markers[slice[i]]]]

\* the match on first(code_data_marker_function_offsets.items(), None) raises
DoesNotStartWithCodeMarker(items) ==
    /\ items # <<>>
    /\ ~(items[1].function_offset = 0 /\ items[1].code_data)

\* the items after the match: a function without markers is one code region
CodeDataMarkerFunctionOffsetsFixed(items) ==
    IF items = <<>> THEN <<[function_offset |-> 0, code_data |-> TRUE]>> ELSE items

\* resolve_function_region
ResolveFunctionRegion(function_offset, function_offset_next, code_data) ==
    [function_offset |-> function_offset,
     size |-> function_offset_next - function_offset,
     code_data |-> code_data]

\* the assertions of resolve_function_region
ResolveFunctionRegionAsserted(function_offset, function_offset_next, size) ==
    /\ function_offset >= 0
    /\ function_offset_next > function_offset
    /\ 0 <= function_offset_next
    /\ function_offset_next <= size

\* function_offset_next of the i-th item in pairwise(chain(items, [(size, None)]))
FunctionOffsetNext(items, i, size) ==
    IF i < Len(items) THEN items[i + 1].function_offset ELSE size

\* function_regions_: one region per pair
FunctionRegionsOf(items, size) ==
    [i \in DOMAIN items |->
        ResolveFunctionRegion(items[i].function_offset, FunctionOffsetNext(items, i, size),
                              items[i].code_data)]

\* FunctionRegion.__post_init__ and FunctionRegions.__post_init__
FunctionRegionsAsserted(inner) ==
    /\ inner # <<>>
    /\ \A i \in DOMAIN inner : inner[i].function_offset >= 0 /\ inner[i].size > 0
    /\ inner[1].code_data
    /\ inner[1].function_offset = 0
    /\ \A i \in 2..Len(inner) :
          inner[i].function_offset = inner[i - 1].function_offset + inner[i - 1].size

RegionsInit ==
    /\ SolverIdle
    /\ EntrypointsIdle
    /\ FunctionIdle
    /\ PipelineIdle
    /\ BlxIdle
    /\ OrderIdle
    /\ TableIdle
    /\ DecoderIdle
    /\ SpIdle
    /\ \E address \in {100, 102}, size \in 1..MaxRegionsFunctionSize :
           s01_function = [address |-> address, size |-> size]
    /\ \E addresses \in SUBSET InputMarkerAddresses :
           \E markers \in [addresses -> BOOLEAN] : code_data_marker_by_address = markers
    /\ function_regions_ = <<>>
    /\ s01_error = ""
    /\ s01_pc = "resolve"

\* resolve_function_regions raises "does not start with code marker"
ResolveFunctionRegionsRaise ==
    /\ s01_pc = "resolve"
    /\ DoesNotStartWithCodeMarker(
           CodeDataMarkerFunctionOffsets(s01_function, code_data_marker_by_address))
    /\ s01_error' = "does not start with code marker"
    /\ s01_pc' = "raised"
    /\ UNCHANGED <<s01_function, code_data_marker_by_address, function_regions_>>
    /\ UNCHANGED regions_others

\* resolve_function_regions builds the regions and returns FunctionRegions, unless an
\* assertion of resolve_function_region or of the model fails
ResolveFunctionRegionsReturn ==
    /\ s01_pc = "resolve"
    /\ LET items == CodeDataMarkerFunctionOffsets(s01_function, code_data_marker_by_address)
           fixed == CodeDataMarkerFunctionOffsetsFixed(items)
           regions == FunctionRegionsOf(fixed, s01_function.size)
           asserted ==
               /\ \A i \in DOMAIN fixed :
                     ResolveFunctionRegionAsserted(fixed[i].function_offset,
                                                   FunctionOffsetNext(fixed, i, s01_function.size),
                                                   s01_function.size)
               /\ FunctionRegionsAsserted(regions)
       IN  /\ ~DoesNotStartWithCodeMarker(items)
           /\ function_regions_' = regions
           /\ s01_error' = IF asserted THEN "" ELSE "AssertionError"
           /\ s01_pc' = IF asserted THEN "returned" ELSE "raised"
    /\ UNCHANGED <<s01_function, code_data_marker_by_address>>
    /\ UNCHANGED regions_others

RegionsNext ==
    \/ ResolveFunctionRegionsRaise
    \/ ResolveFunctionRegionsReturn

SpecRegions == RegionsInit /\ [][RegionsNext]_vars

(***************************************************************************)
(* Properties of the code/data regions                                     *)
(***************************************************************************)

\* the markers inside the function, as the set of their addresses
MarkersInside ==
    {a \in DOMAIN code_data_marker_by_address :
        a >= s01_function.address /\ a < s01_function.address + s01_function.size}

\* the regions start at offset 0 with a code region, follow one another without gap
\* and end at the size of the function
RegionsCoverFunction ==
    /\ function_regions_ # <<>>
    /\ function_regions_[1].function_offset = 0
    /\ function_regions_[1].code_data
    /\ \A i \in DOMAIN function_regions_ : function_regions_[i].size > 0
    /\ \A i \in 2..Len(function_regions_) :
          function_regions_[i].function_offset =
              function_regions_[i - 1].function_offset + function_regions_[i - 1].size
    /\ function_regions_[Len(function_regions_)].function_offset
           + function_regions_[Len(function_regions_)].size = s01_function.size

\* no two adjacent regions are of the same kind
RegionsAlternate ==
    \A i \in 2..Len(function_regions_) :
        function_regions_[i].code_data # function_regions_[i - 1].code_data

\* no two successive markers inside the function are of the same kind
MarkersAlternate ==
    \A a \in MarkersInside, b \in MarkersInside :
        (a < b /\ \A c \in MarkersInside : ~(a < c /\ c < b))
            => code_data_marker_by_address[a] # code_data_marker_by_address[b]

\* each region begins at a marker and is of its kind, a function without markers
\* inside being one code region
RegionsOfMarkerKind ==
    IF MarkersInside = {}
    THEN Len(function_regions_) = 1
    ELSE /\ Len(function_regions_) = Cardinality(MarkersInside)
         /\ \A i \in DOMAIN function_regions_ :
               /\ s01_function.address + function_regions_[i].function_offset \in MarkersInside
               /\ function_regions_[i].code_data =
                      code_data_marker_by_address[
                          s01_function.address + function_regions_[i].function_offset]

\* C28 as stated: the regions of an accepted function start at 0 with code, are
\* contiguous up to the function size and alternate in kind.
C28_RegionsAlternate ==
    s01_pc = "returned" => (RegionsCoverFunction /\ RegionsAlternate)

\* C28, amended: the regions of an accepted function start at 0 with code and are
\* contiguous up to the function size; each region has the kind of the marker at its
\* start, so two adjacent regions are of the same kind exactly when two successive
\* markers inside the function are; no assertion fails.
C28_RegionsFollowMarkers ==
    /\ s01_error # "AssertionError"
    /\ s01_pc = "returned" =>
          /\ RegionsCoverFunction
          /\ RegionsOfMarkerKind
          /\ RegionsAlternate <=> MarkersAlternate

\* $t at 0, $t at 2 and $d at 4 of a function of six bytes: code, code, data
C28_Witness ==
    /\ s01_pc = "returned"
    /\ s01_function = [address |-> 100, size |-> 6]
    /\ MarkersInside = {100, 102, 104}
    /\ function_regions_ = <<[function_offset |-> 0, size |-> 2, code_data |-> TRUE],
                             [function_offset |-> 2, size |-> 2, code_data |-> TRUE],
                             [function_offset |-> 4, size |-> 2, code_data |-> FALSE]>>

====
